---- MODULE Spec2Model ----
(***************************************************************************)
(* A model of the product-card bot: the attribute extractors (heuristic    *)
(* and AI-assisted), the keyboards of the photo flow, the retrying HTTP       *)
(* client and the card builder.                                            *)
(*                                                                         *)
(* Text.  A Python str is a sequence of characters; a character is an      *)
(* atom (a TLA+ string).  ASCII characters stand for themselves, except    *)
(* Latin letters, which are written "@x"; a Cyrillic letter is written by  *)
(* its transliteration ("r" "u" "b" is the word rubl'-short, "K" is the    *)
(* capital ka); the rouble sign is "<rub>" and the euro sign "<eur>".      *)
(* None is the one-element sequence <<"<None>">>, which is no str.         *)
(***************************************************************************)
EXTENDS Integers, Sequences, FiniteSets, TLC

VARIABLES
    fsm_state,   \* FSMContext state of the conversation
    data,        \* FSMContext data: original_text, product_info, photo_url
    task,        \* the handler that ran last and the extractor calls it made
    trace,       \* the merge or the render call of the handler that ran last
    keyboards,   \* the inline keyboards sent to the chat so far
    px,          \* a pure function applied to drawn inputs: inputs, results, phase
    req,         \* OpenRouterClient._make_request: loop state
    bld          \* CardBuilder.build_card: call state and the card files

vars == <<fsm_state, data, task, trace, keyboards, px, req, bld>>

(***************************************************************************)
(* Characters                                                              *)
(***************************************************************************)
None == <<"<None>">>

Digit == {"0", "1", "2", "3", "4", "5", "6", "7", "8", "9"}

\* Characters matched by \s (str.strip() strips the same ones).
WS == {" ", "\n", "\t"}

CyrLower == <<"a", "b", "v", "g", "d", "e", "yo", "zh", "z", "i", "j", "k",
              "l", "m", "n", "o", "p", "r", "s", "t", "u", "f", "kh", "ts",
              "ch", "sh", "shch", "qq", "y", "q", "eh", "yu", "ya">>

CyrUpper == <<"A", "B", "V", "G", "D", "E", "YO", "ZH", "Z", "I", "J", "K",
              "L", "M", "N", "O", "P", "R", "S", "T", "U", "F", "KH", "TS",
              "CH", "SH", "SHCH", "QQ", "Y", "Q", "EH", "YU", "YA">>

LatLower == <<"@a", "@b", "@c", "@d", "@e", "@f", "@g", "@h", "@i", "@j",
              "@k", "@l", "@m", "@n", "@o", "@p", "@q", "@r", "@s", "@t",
              "@u", "@v", "@w", "@x", "@y", "@z">>

LatUpper == <<"@A", "@B", "@C", "@D", "@E", "@F", "@G", "@H", "@I", "@J",
              "@K", "@L", "@M", "@N", "@O", "@P", "@Q", "@R", "@S", "@T",
              "@U", "@V", "@W", "@X", "@Y", "@Z">>

Range(f) == {f[i] : i \in DOMAIN f}

LowerLetters == Range(CyrLower) \cup Range(LatLower)
UpperLetters == Range(CyrUpper) \cup Range(LatUpper)

\* Characters matched by \w.
WordCh == LowerLetters \cup UpperLetters \cup Digit \cup {"_"}

LowerTable ==
    [c \in UpperLetters |->
        IF c \in Range(CyrUpper)
        THEN CyrLower[CHOOSE i \in DOMAIN CyrUpper : CyrUpper[i] = c]
        ELSE LatLower[CHOOSE i \in DOMAIN LatUpper : LatUpper[i] = c]]

UpperTable ==
    [c \in LowerLetters |->
        IF c \in Range(CyrLower)
        THEN CyrUpper[CHOOSE i \in DOMAIN CyrLower : CyrLower[i] = c]
        ELSE LatUpper[CHOOSE i \in DOMAIN LatLower : LatLower[i] = c]]

LowerCh(c) == IF c \in UpperLetters THEN LowerTable[c] ELSE c
UpperCh(c) == IF c \in LowerLetters THEN UpperTable[c] ELSE c

(***************************************************************************)
(* str operations                                                          *)
(***************************************************************************)
Min(S) == CHOOSE x \in S : \A y \in S : x <= y
Max(S) == CHOOSE x \in S : \A y \in S : x >= y

\* s[i:j] on 1-based positions: the characters at i .. j-1.
Slice(s, i, j) == IF j <= i THEN <<>> ELSE SubSeq(s, i, j - 1)

\* str.lower()
Lower(s) == [i \in 1..Len(s) |-> LowerCh(s[i])]

\* str.capitalize()
Capitalize(s) ==
    [i \in 1..Len(s) |-> IF i = 1 THEN UpperCh(s[i]) ELSE LowerCh(s[i])]

\* str.strip()
Strip(s) ==
    LET keep == {i \in 1..Len(s) : s[i] \notin WS}
    IN  IF keep = {} THEN <<>> ELSE SubSeq(s, Min(keep), Max(keep))

\* str.strip(',')
StripCommas(s) ==
    LET keep == {i \in 1..Len(s) : s[i] # ","}
    IN  IF keep = {} THEN <<>> ELSE SubSeq(s, Min(keep), Max(keep))

\* str.replace(c, '') for one character c
RemoveCh(s, c) == SelectSeq(s, LAMBDA x : x # c)

\* str.replace(c, d) for characters c, d
ReplaceCh(s, c, d) == [i \in 1..Len(s) |-> IF s[i] = c THEN d ELSE s[i]]

\* The position after the longest run of characters of class C that starts
\* at position i (i itself when s[i] is not in C or i is past the end).
RunEnd(s, i, C) ==
    LET stop == {j \in i..Len(s) : s[j] \notin C}
    IN  IF stop = {} THEN (IF i > Len(s) THEN i ELSE Len(s) + 1) ELSE Min(stop)

\* The literal lit (lower case) occurs at position i, ignoring case.
LitAtI(s, i, lit) ==
    /\ i >= 1
    /\ i + Len(lit) - 1 <= Len(s)
    /\ \A k \in 1..Len(lit) : LowerCh(s[i + k - 1]) = lit[k]

\* The literal lit occurs at position i, case-sensitive.
LitAt(s, i, lit) ==
    /\ i >= 1
    /\ i + Len(lit) - 1 <= Len(s)
    /\ \A k \in 1..Len(lit) : s[i + k - 1] = lit[k]

\* lit in s
Contains(s, lit) == \E i \in 1..(Len(s) - Len(lit) + 1) : LitAt(s, i, lit)

\* \b at position i: between s[i-1] and s[i], exactly one is a \w character.
WordBoundary(s, i) ==
    LET before == i > 1 /\ i - 1 <= Len(s) /\ s[i - 1] \in WordCh
        after  == i >= 1 /\ i <= Len(s) /\ s[i] \in WordCh
    IN  before # after

\* $ without re.MULTILINE: the end, or just before a final newline.
AtEnd(s, i) == i = Len(s) + 1 \/ (i = Len(s) /\ s[i] = "\n")

\* float(p) does not raise, for p made of digits, '.', ',' and whitespace:
\* float strips surrounding whitespace and accepts digits with one point.
FloatOK(p) ==
    LET t == Strip(p)
    IN  /\ \A i \in 1..Len(t) : t[i] \in Digit \cup {"."}
        /\ Cardinality({i \in 1..Len(t) : t[i] = "."}) <= 1
        /\ \E i \in 1..Len(t) : t[i] \in Digit

(***************************************************************************)
(* Words of the patterns                                                   *)
(***************************************************************************)
RubSign == "<rub>"
w_rub == <<"r", "u", "b">>
w_rublej == <<"r", "u", "b", "l", "e", "j">>
w_rublya == <<"r", "u", "b", "l", "ya">>
w_tsena == <<"ts", "e", "n", "a">>
w_stoimost == <<"s", "t", "o", "i", "m", "o", "s", "t", "q">>

(***************************************************************************)
(* handlers/description.py: extract_price_from_text                        *)
(***************************************************************************)
\* The currency alternation matches at position i (case-insensitively):
\*   (?:₽|руб\.?|рублей|рубля)              when ext is FALSE,
\*   (?:₽|руб\.?|рублей|рубля|р\.?|р\b)     when ext is TRUE.
CurrencyAt(s, i, ext) ==
    \/ (i >= 1 /\ i <= Len(s) /\ s[i] = RubSign)
    \/ LitAtI(s, i, w_rub)
    \/ LitAtI(s, i, w_rublej)
    \/ LitAtI(s, i, w_rublya)
    \/ (ext /\ LitAtI(s, i, <<"r">>))

\* \s*(?:currency) matches at position b.
WsThenCurrency(s, b, ext) == \E w \in b..RunEnd(s, b, WS) : CurrencyAt(s, w, ext)

\* The end (position after) of group (\d[\d\s]*(?:[.,]\d+)?) for a match of
\*   (\d[\d\s]*(?:[.,]\d+)?)\s*(?:currency)
\* that starts at position i, or 0 when there is none.  The regex engine
\* backtracks from the longest [\d\s]*; for each it tries the optional
\* fraction (longest \d+ first) before trying without it.
NumberThenCurrencyEnd(s, i, ext) ==
    IF ~(i >= 1 /\ i <= Len(s) /\ s[i] \in Digit) THEN 0
    ELSE
    LET FracEnds(a) ==
            IF a + 1 <= Len(s) /\ s[a] \in {".", ","} /\ s[a + 1] \in Digit
            THEN {b \in (a + 2)..RunEnd(s, a + 1, Digit) : WsThenCurrency(s, b, ext)}
            ELSE {}
        WithFrac(a, ends) ==
            IF ends # {} THEN Max(ends)
            ELSE IF WsThenCurrency(s, a, ext) THEN a ELSE 0
        TailEnd(a) == WithFrac(a, FracEnds(a))
        \* <<a, TailEnd(a)>> for every end a of [\d\s]* that lets the rest match
        good == {p \in {<<a, TailEnd(a)>> :
                            a \in (i + 1)..RunEnd(s, i + 1, Digit \cup WS)} :
                    p[2] # 0}
        Longest(ps) ==
            IF ps = {} THEN 0
            ELSE (CHOOSE p \in ps : \A q \in ps : q[1] <= p[1])[2]
    IN  Longest(good)

\* re.search of pattern 1: <<start, end>> of group 1, or <<0, 0>>.
SearchNumberThenCurrency(s, ext) ==
    LET hits == {p \in {<<i, NumberThenCurrencyEnd(s, i, ext)>> : i \in 1..Len(s)} :
                    p[2] # 0}
        Leftmost(ps) ==
            IF ps = {} THEN <<0, 0>>
            ELSE CHOOSE p \in ps : \A q \in ps : p[1] <= q[1]
    IN  Leftmost(hits)

\* The end of \d[\d\s]*(?:[.,]\d+)? matched greedily at position d with
\* nothing required after it (0 when s[d] is no digit).
NumberEnd(s, d) ==
    IF ~(d >= 1 /\ d <= Len(s) /\ s[d] \in Digit) THEN 0
    ELSE LET Frac(a) ==
                 IF a + 1 <= Len(s) /\ s[a] \in {".", ","} /\ s[a + 1] \in Digit
                 THEN RunEnd(s, a + 1, Digit)
                 ELSE a
         IN  Frac(RunEnd(s, d + 1, Digit \cup WS))

\* re.search of (?:label)[:\s]*(\d[\d\s]*(?:[.,]\d+)?) for the given label
\* words (re.IGNORECASE): <<start, end>> of group 1, or <<0, 0>>.
SearchLabelThenNumber(s, labels) ==
    LET DigitPos(i) ==
            {RunEnd(s, i + Len(l), {":"} \cup WS) : l \in {l \in labels : LitAtI(s, i, l)}}
        \* <<i, d, end>>: the label matches at i, the number at d up to end
        At(i) == {m \in {<<i, d, NumberEnd(s, d)>> : d \in DigitPos(i)} : m[3] # 0}
        hits == UNION {At(i) : i \in 1..Len(s)}
        Leftmost(ms) ==
            IF ms = {} THEN <<0, 0>>
            ELSE Tail(CHOOSE m \in ms : \A q \in ms : m[1] <= q[1])
    IN  Leftmost(hits)

\* re.search of (?:^|,\s*)(\d{3,})\s*(?:,|$): <<start, end>> of group 1.
SearchBareNumber(s) ==
    LET DigitPos(i) ==
            IF i = 1 /\ s[1] \in Digit THEN 1
            ELSE IF s[i] = "," THEN RunEnd(s, i + 1, WS) ELSE 0
        Ok(d, e) ==
            /\ d # 0
            /\ e - d >= 3
            /\ \E w \in e..RunEnd(s, e, WS) :
                   (w <= Len(s) /\ s[w] = ",") \/ AtEnd(s, w)
        \* <<i, d, end>>: the match starts at i, its digits are d .. end-1
        From(i, d) == <<i, d, IF d = 0 THEN 0 ELSE RunEnd(s, d, Digit)>>
        hits == {m \in {From(i, DigitPos(i)) : i \in 1..Len(s)} : Ok(m[2], m[3])}
        Leftmost(ms) ==
            IF ms = {} THEN <<0, 0>>
            ELSE Tail(CHOOSE m \in ms : \A q \in ms : m[1] <= q[1])
    IN  Leftmost(hits)

\* re.findall(r'\b(\d{3,})\b', text)[0]: <<start, end>>, or <<0, 0>>.
SearchDigitRun(s) ==
    LET Ok(i, e) ==
            /\ s[i] \in Digit
            /\ WordBoundary(s, i)
            /\ e - i >= 3
            /\ WordBoundary(s, e)
        hits == {m \in {<<i, RunEnd(s, i, Digit)>> : i \in 1..Len(s)} : Ok(m[1], m[2])}
        Leftmost(ms) ==
            IF ms = {} THEN <<0, 0>>
            ELSE CHOOSE m \in ms : \A q \in ms : m[1] <= q[1]
    IN  Leftmost(hits)

\* The three patterns of the list, in list order: group 1 of pattern k.
PricePatternGroup(text, k) ==
    IF k = 1 THEN SearchNumberThenCurrency(text, FALSE)
    ELSE IF k = 2 THEN SearchLabelThenNumber(text, {w_tsena, w_stoimost})
    ELSE SearchBareNumber(text)

\* match.group(1).replace(' ', '').replace(',', '.')
NormalizeNumber(g) == ReplaceCh(RemoveCh(g, " "), ",", ".")

\* "{price} ₽"
WithRouble(price) == price \o <<" ", RubSign>>

\* The loop over the patterns and the fallback after it: found[k] is what
\* the iteration of pattern k returns (None: the loop goes on), fb is the
\* first element of the fallback's findall.
FirstPrice(text, found, fb) ==
    IF \E k \in DOMAIN found : found[k] # None
    THEN WithRouble(found[Min({k \in DOMAIN found : found[k] # None})])
    ELSE IF fb[1] # 0 THEN WithRouble(Slice(text, fb[1], fb[2]))
    ELSE None

\* A variant that returns the capture of the first matching pattern
\* without asking float() about it.
extract_price_from_text_unchecked(text) ==
    IF text = None \/ text = <<>> THEN None
    ELSE
    LET Captured(m) ==
            IF m[1] # 0 THEN NormalizeNumber(Slice(text, m[1], m[2])) ELSE None
    IN  FirstPrice(text, [k \in 1..3 |-> Captured(PricePatternGroup(text, k))],
                   SearchDigitRun(text))

extract_price_from_text(text) ==
    IF text = None \/ text = <<>> THEN None
    ELSE
    LET \* the capture float() accepts is returned; ValueError: continue
        Checked(price) == IF FloatOK(price) THEN price ELSE None
        Captured(m) ==
            IF m[1] # 0 THEN Checked(NormalizeNumber(Slice(text, m[1], m[2])))
            ELSE None
    IN  FirstPrice(text, [k \in 1..3 |-> Captured(PricePatternGroup(text, k))],
                   SearchDigitRun(text))

(***************************************************************************)
(* The other patterns of the heuristic extractors.  A pattern is a record; *)
(* MatchEnd(s, i, pat) is the position after the match of pat that starts  *)
(* at position i, or 0 when pat does not match at i.  No pattern matches   *)
(* the empty string.                                                       *)
(***************************************************************************)
w_r == <<"r">>
w_kategoriya == <<"k", "a", "t", "e", "g", "o", "r", "i", "ya">>
w_kategoriyu == <<"k", "a", "t", "e", "g", "o", "r", "i", "yu">>
w_kategori == <<"k", "a", "t", "e", "g", "o", "r", "i">>
w_razmer == <<"r", "a", "z", "m", "e", "r">>
w_tsvet == <<"ts", "v", "e", "t">>
w_buket == <<"b", "u", "k", "e", "t">>

\* [^,\n]
NotCommaNl(c) == c \notin {",", "\n"}

\* The position after the longest run of [^,\n] that starts at position i.
RunEndNotCommaNl(s, i) ==
    LET stop == {j \in i..Len(s) : ~NotCommaNl(s[j])}
    IN  IF stop = {} THEN (IF i > Len(s) THEN i ELSE Len(s) + 1) ELSE Min(stop)

\* <<start, end>> of group ([^,\n]+) in  label[:\s\-]+\s*([^,\n]+)  matched
\* at position i, or <<0, 0>>.  [:\s\-]+ is greedy and gives characters
\* back until the group can start: the group starts at the last position
\* of the separator run (or right after it) that holds a [^,\n] character.
LabelGroup(s, i, lits) ==
    LET From(G) ==
            IF G = {} THEN <<0, 0>> ELSE <<Max(G), RunEndNotCommaNl(s, Max(G))>>
        \* p: the position after the label
        After(p) ==
            From({g \in (p + 1)..RunEnd(s, p, {":", "-"} \cup WS) :
                     g <= Len(s) /\ NotCommaNl(s[g])})
        Matching(ls) ==
            IF ls = {} THEN <<0, 0>> ELSE After(i + Len(CHOOSE l \in ls : TRUE))
    IN  Matching({l \in lits : LitAtI(s, i, l)})

\* The removal pattern of the price step (no flags):
\*   \d[\d\s]*(?:[.,]\d+)?\s*(?:₽|руб\.?|рублей|рубля|р\.?|р\b)?
\* Every part after the first digit is optional, so the greedy first try
\* succeeds.
PriceRemovalEnd(s, i) ==
    IF ~(i >= 1 /\ i <= Len(s) /\ s[i] \in Digit) THEN 0
    ELSE LET Dot(e) == IF e <= Len(s) /\ s[e] = "." THEN e + 1 ELSE e
             \* w: the position after the number and \s*
             Currency(w) ==
                 IF w <= Len(s) /\ s[w] = RubSign THEN w + 1
                 ELSE IF LitAt(s, w, w_rub) THEN Dot(w + 3)
                 ELSE IF LitAt(s, w, w_r) THEN Dot(w + 1)
                 ELSE w
         IN  Currency(RunEnd(s, NumberEnd(s, i), WS))

\* \b(alt|alt|...)\b with re.IGNORECASE: the first alternative, in order,
\* that matches at i and is followed by a word boundary.
WordsEnd(s, i, alts) ==
    LET First(ok) ==
            IF i >= 1 /\ i <= Len(s) /\ WordBoundary(s, i) /\ ok # {}
            THEN i + Len(alts[Min(ok)])
            ELSE 0
    IN  First({k \in DOMAIN alts :
                  LitAtI(s, i, alts[k]) /\ WordBoundary(s, i + Len(alts[k]))})

DimUnits == << <<"s", "m">>, <<"m", "m">>, <<"m">>, <<"@x">>, <<"kh">> >>

\* \b(\d+\s*(?:см|мм|м|x|х)\s*\d*) with re.IGNORECASE
DimEnd(s, i) ==
    IF ~(i >= 1 /\ i <= Len(s) /\ s[i] \in Digit /\ WordBoundary(s, i)) THEN 0
    ELSE LET \* a: the position after \d+\s*, ok: the units that match there
             Unit(a, ok) ==
                 IF ok = {} THEN 0
                 ELSE RunEnd(s, RunEnd(s, a + Len(DimUnits[Min(ok)]), WS), Digit)
             At(a) == Unit(a, {k \in DOMAIN DimUnits : LitAtI(s, a, DimUnits[k])})
         IN  At(RunEnd(s, RunEnd(s, i, Digit), WS))

\* \b(размер\s*[:\-]?\s*\w+) with re.IGNORECASE
SizeWordEnd(s, i) ==
    IF ~(WordBoundary(s, i) /\ LitAtI(s, i, w_razmer)) THEN 0
    ELSE LET Word(b) ==
                 IF b <= Len(s) /\ s[b] \in WordCh THEN RunEnd(s, b, WordCh) ELSE 0
             Sep(a) ==
                 Word(IF a <= Len(s) /\ s[a] \in {":", "-"}
                      THEN RunEnd(s, a + 1, WS) ELSE a)
         IN  Sep(RunEnd(s, i + Len(w_razmer), WS))

MatchEnd(s, i, pat) ==
    CASE pat.k = "price_rm" -> PriceRemovalEnd(s, i)
      [] pat.k = "label" ->
            \* label[:\s\-]+\s*[^,\n]+ and, with pat.tail, [,]?\s* after it
            LET Comma(e) == IF e <= Len(s) /\ e > 0 /\ s[e] = "," THEN e + 1 ELSE e
                End(e) ==
                    IF e = 0 THEN 0
                    ELSE IF pat.tail THEN RunEnd(s, Comma(e), WS) ELSE e
            IN  End(LabelGroup(s, i, pat.lits)[2])
      [] pat.k = "words" -> WordsEnd(s, i, pat.alts)
      [] pat.k = "dim" -> DimEnd(s, i)
      [] pat.k = "sizeword" -> SizeWordEnd(s, i)
      [] pat.k = "lit" ->
            \* the word pat.w, re.IGNORECASE; between \b when pat.bounded
            IF /\ LitAtI(s, i, pat.w)
               /\ (pat.bounded =>
                      WordBoundary(s, i) /\ WordBoundary(s, i + Len(pat.w)))
            THEN i + Len(pat.w) ELSE 0
      [] pat.k = "tsvet" ->
            \* цвет\s+{word} with re.IGNORECASE
            LET Word(a) ==
                    IF LitAtI(s, i, w_tsvet) /\ a > i + Len(w_tsvet)
                       /\ LitAtI(s, a, pat.w)
                    THEN a + Len(pat.w) ELSE 0
            IN  Word(RunEnd(s, i + Len(w_tsvet), WS))
      [] pat.k = "commaws" ->
            \* \s*,\s*
            LET Comma(e) ==
                    IF i >= 1 /\ e <= Len(s) /\ s[e] = ","
                    THEN RunEnd(s, e + 1, WS) ELSE 0
            IN  Comma(RunEnd(s, i, WS))
      [] pat.k = "ws" ->
            \* \s+
            IF i >= 1 /\ i <= Len(s) /\ s[i] \in WS THEN RunEnd(s, i, WS) ELSE 0

\* re.search(pat, s): <<m.start(), m.end()>> of the leftmost match, or
\* <<0, 0>>.
SearchPat(s, pat) ==
    LET Leftmost(ms) ==
            IF ms = {} THEN <<0, 0>>
            ELSE CHOOSE m \in ms : \A q \in ms : m[1] <= q[1]
    IN  Leftmost({m \in {<<i, MatchEnd(s, i, pat)>> : i \in 1..Len(s)} : m[2] # 0})

\* re.sub(pat, '', s, count=1)
SubFirst(s, pat) ==
    LET Cut(m) ==
            IF m[1] = 0 THEN s
            ELSE Slice(s, 1, m[1]) \o Slice(s, m[2], Len(s) + 1)
    IN  Cut(SearchPat(s, pat))

RECURSIVE SubAllFrom(_, _, _, _)
SubAllFrom(s, pat, repl, i) ==
    IF i > Len(s) THEN <<>>
    ELSE LET Step(e) ==
                 IF e # 0 THEN repl \o SubAllFrom(s, pat, repl, e)
                 ELSE <<s[i]>> \o SubAllFrom(s, pat, repl, i + 1)
         IN  Step(MatchEnd(s, i, pat))

\* re.sub(pat, repl, s)
SubAll(s, pat, repl) == SubAllFrom(s, pat, repl, 1)

\* s.split(',')
RECURSIVE SplitComma(_)
SplitComma(s) ==
    LET At(cs) ==
            IF cs = {} THEN <<s>>
            ELSE <<Slice(s, 1, Min(cs))>> \o SplitComma(Slice(s, Min(cs) + 1, Len(s) + 1))
    IN  At({i \in 1..Len(s) : s[i] = ","})

\* ', '.join(parts)
RECURSIVE JoinComma(_)
JoinComma(parts) ==
    IF Len(parts) = 0 THEN <<>>
    ELSE IF Len(parts) = 1 THEN parts[1]
    ELSE parts[1] \o <<",", " ">> \o JoinComma(Tail(parts))

\* any(kw in p.lower() for kw in ['размер', 'категори', 'цвет', 'букет'])
HasKeyword(p) ==
    \E kw \in {w_razmer, w_kategori, w_tsvet, w_buket} : Contains(Lower(p), kw)

\* The three clean-up lines shared by both heuristic extractors.
Cleanup(s) ==
    Strip(StripCommas(Strip(SubAll(SubAll(s, [k |-> "commaws"], <<",", " ">>),
                                   [k |-> "ws"], <<" ">>))))

(***************************************************************************)
(* text_analyzer.py: ProductInfo                                           *)
(***************************************************************************)
\* ProductInfo(): every field None.
EmptyInfo ==
    [name |-> None, price |-> None, description |-> None, category |-> None,
     color |-> None, size |-> None, other_features |-> None]

\* Python truthiness of an Optional[str]: not None and not ''.
Truthy(v) == v # None /\ v # <<>>

\* ProductInfo.has_required_fields
has_required_fields(info) ==
    Truthy(info.name) /\ (Truthy(info.price) \/ Truthy(info.description))

(***************************************************************************)
(* handlers/description.py: extract_product_info_locally                   *)
(***************************************************************************)
\* description.py: the colors dict, in insertion order: <<surface form, canonical name>>
colors ==
    <<
      << <<"k","r","a","s","n","y","j">>, <<"K","r","a","s","n","y","j">> >>,
      << <<"k","r","a","s","n","a","ya">>, <<"K","r","a","s","n","y","j">> >>,
      << <<"k","r","a","s","n","o","e">>, <<"K","r","a","s","n","y","j">> >>,
      << <<"s","i","n","i","j">>, <<"S","i","n","i","j">> >>,
      << <<"s","i","n","ya","ya">>, <<"S","i","n","i","j">> >>,
      << <<"s","i","n","e","e">>, <<"S","i","n","i","j">> >>,
      << <<"z","e","l","yo","n","y","j">>, <<"Z","e","l","yo","n","y","j">> >>,
      << <<"z","e","l","e","n","y","j">>, <<"Z","e","l","yo","n","y","j">> >>,
      << <<"z","e","l","yo","n","a","ya">>, <<"Z","e","l","yo","n","y","j">> >>,
      << <<"z","e","l","e","n","a","ya">>, <<"Z","e","l","yo","n","y","j">> >>,
      << <<"zh","yo","l","t","y","j">>, <<"ZH","yo","l","t","y","j">> >>,
      << <<"zh","e","l","t","y","j">>, <<"ZH","yo","l","t","y","j">> >>,
      << <<"b","e","l","y","j">>, <<"B","e","l","y","j">> >>,
      << <<"b","e","l","a","ya">>, <<"B","e","l","y","j">> >>,
      << <<"b","e","l","o","e">>, <<"B","e","l","y","j">> >>,
      << <<"ch","yo","r","n","y","j">>, <<"CH","yo","r","n","y","j">> >>,
      << <<"ch","e","r","n","y","j">>, <<"CH","yo","r","n","y","j">> >>,
      << <<"ch","yo","r","n","a","ya">>, <<"CH","yo","r","n","y","j">> >>,
      << <<"ch","e","r","n","a","ya">>, <<"CH","yo","r","n","y","j">> >>,
      << <<"r","o","z","o","v","y","j">>, <<"R","o","z","o","v","y","j">> >>,
      << <<"r","o","z","o","v","a","ya">>, <<"R","o","z","o","v","y","j">> >>,
      << <<"o","r","a","n","zh","e","v","y","j">>, <<"O","r","a","n","zh","e","v","y","j">> >>,
      << <<"o","r","a","n","zh","e","v","a","ya">>, <<"O","r","a","n","zh","e","v","y","j">> >>,
      << <<"f","i","o","l","e","t","o","v","y","j">>, <<"F","i","o","l","e","t","o","v","y","j">> >>,
      << <<"f","i","o","l","e","t","o","v","a","ya">>, <<"F","i","o","l","e","t","o","v","y","j">> >>,
      << <<"g","o","l","u","b","o","j">>, <<"G","o","l","u","b","o","j">> >>,
      << <<"g","o","l","u","b","a","ya">>, <<"G","o","l","u","b","o","j">> >>,
      << <<"s","e","r","y","j">>, <<"S","e","r","y","j">> >>,
      << <<"s","e","r","a","ya">>, <<"S","e","r","y","j">> >>,
      << <<"k","o","r","i","ch","n","e","v","y","j">>, <<"K","o","r","i","ch","n","e","v","y","j">> >>,
      << <<"k","o","r","i","ch","n","e","v","a","ya">>, <<"K","o","r","i","ch","n","e","v","y","j">> >>,
      << <<"b","e","zh","e","v","y","j">>, <<"B","e","zh","e","v","y","j">> >>,
      << <<"b","e","zh","e","v","a","ya">>, <<"B","e","zh","e","v","y","j">> >>
    >>

size_patterns ==
    << [k |-> "label", lits |-> {w_razmer}, tail |-> FALSE],
       [k |-> "words", alts |-> << <<"@x", "@l">>, <<"@x", "@x", "@l">>,
                                   <<"@x", "@x", "@x", "@l">>, <<"@x", "@s">>,
                                   <<"@s">>, <<"@m">>, <<"@l">> >>],
       [k |-> "dim"],
       [k |-> "words", alts |-> << <<"b", "o", "l", "q", "sh", "o", "j">>,
                                   <<"s", "r", "e", "d", "n", "i", "j">>,
                                   <<"m", "a", "l", "e", "n", "q", "k", "i", "j">>,
                                   <<"o", "g", "r", "o", "m", "n", "y", "j">>,
                                   <<"m", "i", "n", "i">> >>] >>

category_pattern == [k |-> "label", lits |-> {w_kategoriya, w_kategoriyu}, tail |-> FALSE]
category_removal == [k |-> "label", lits |-> {w_kategoriya, w_kategoriyu}, tail |-> TRUE]

\* match.group(1) of the pattern pat matched at position i.
Group1(s, m, pat) ==
    LET Cut(g) == Slice(s, g[1], g[2])
    IN  Cut(IF pat.k = "label" THEN LabelGroup(s, m[1], pat.lits) ELSE m)

\* The working text after the price step (lines 93-97).
LocalAfterPrice(text, price) ==
    IF Truthy(price) THEN Strip(SubFirst(text, [k |-> "price_rm"])) ELSE text

\* The working text after the category step (lines 100-103).
AfterCategory(w) ==
    IF SearchPat(w, category_pattern)[1] # 0
    THEN Strip(SubAll(w, category_removal, <<>>))
    ELSE w

\* The category step's result (line 102).
CategoryOf(w) ==
    LET Found(m) ==
            IF m[1] = 0 THEN None
            ELSE Capitalize(Strip(Group1(w, m, category_pattern)))
    IN  Found(SearchPat(w, category_pattern))

\* The first size pattern, in list order, that matches w, and its match:
\* <<k, match>>, or <<0, <<0, 0>>>>.
FirstSizePattern(w, pats) ==
    LET First(ms) ==
            IF ms = {} THEN <<0, <<0, 0>>>>
            ELSE CHOOSE m \in ms : \A q \in ms : m[1] <= q[1]
    IN  First({m \in {<<k, SearchPat(w, pats[k])>> : k \in DOMAIN pats} : m[2][1] # 0})

\* The first colour of the vocabulary that occurs in w.lower() (0: none).
FirstColor(w, words) ==
    LET First(ok) == IF ok = {} THEN 0 ELSE Min(ok)
    IN  First({k \in DOMAIN words : Contains(Lower(w), words[k])})

\* The two re.sub calls that remove the colour word cw (lines 139-140).
RemoveColor(w, cw) ==
    Strip(SubAll(Strip(SubAll(w, [k |-> "tsvet", w |-> cw], <<>>)),
                 [k |-> "lit", w |-> cw, bounded |-> TRUE], <<>>))

\* [p.strip() for p in working_text.split(',') if p.strip()]
NonEmptyParts(w) ==
    LET Stripped(ps) == [i \in 1..Len(ps) |-> Strip(ps[i])]
    IN  SelectSeq(Stripped(SplitComma(w)), LAMBDA p : p # <<>>)

\* ', '.join of the parts without a keyword, or None when there is none.
DescriptionOf(parts) ==
    LET Joined(keep) == IF Len(keep) = 0 THEN None ELSE JoinComma(keep)
    IN  Joined(SelectSeq(parts, LAMBDA p : p # <<>> /\ ~HasKeyword(p)))

\* The keys of the colors dict, in order.
ColorWords == [k \in DOMAIN colors |-> colors[k][1]]

\* The steps of the function, the last one first: each step hands what it
\* found and the working text to the next.
extract_product_info_locally(text0) ==
    IF ~Truthy(text0) THEN EmptyInfo
    ELSE
    LET \* lines 148-160: the name, the description and the result
        Result(price, category, size, color, parts) ==
            [name |-> IF Len(parts) = 0 THEN None ELSE Capitalize(parts[1]),
             price |-> price,
             description |-> IF Len(parts) > 1 THEN DescriptionOf(Tail(parts)) ELSE None,
             category |-> category,
             color |-> color,
             size |-> size,
             other_features |-> None]
        \* lines 137-146: the colour ck is removed, then the clean-up
        Colour(price, category, size, w3, ck) ==
            Result(price, category, size,
                   IF ck = 0 THEN None ELSE colors[ck][2],
                   NonEmptyParts(Cleanup(IF ck = 0 THEN w3
                                         ELSE RemoveColor(w3, colors[ck][1]))))
        \* lines 135-136: the first colour word that occurs in the text
        Sized(price, category, size, w3) ==
            Colour(price, category, size, w3, FirstColor(w3, ColorWords))
        \* lines 112-117: the size sz = <<pattern, match>> is removed
        Size(price, category, w2, sz) ==
            Sized(price, category,
                  IF sz[1] = 0 THEN None
                  ELSE Strip(Group1(w2, sz[2], size_patterns[sz[1]])),
                  IF sz[1] = 0 THEN w2
                  ELSE Strip(SubFirst(w2, size_patterns[sz[1]])))
        Categorised(price, category, w2) ==
            Size(price, category, w2, FirstSizePattern(w2, size_patterns))
        \* lines 100-103: the category
        Category(price, w1) == Categorised(price, CategoryOf(w1), AfterCategory(w1))
        \* lines 93-97: the price
        Priced(text, price) == Category(price, LocalAfterPrice(text, price))
        Price(text) == Priced(text, extract_price_from_text(text))
    IN  Price(Strip(text0))

(***************************************************************************)
(* handlers/photo.py: extract_price_from_text (captions and corrections)   *)
(***************************************************************************)
w_price == <<"@p", "@r", "@i", "@c", "@e">>
w_cost == <<"@c", "@o", "@s", "@t">>

\* The end of \d{2,}(?:[.,]\d+)? matched greedily at position d (0: fewer
\* than two digits there).
TwoDigitNumberEnd(s, d) ==
    LET Frac(e) ==
            IF e - d < 2 THEN 0
            ELSE IF e + 1 <= Len(s) /\ s[e] \in {".", ","} /\ s[e + 1] \in Digit
                 THEN RunEnd(s, e + 1, Digit)
                 ELSE e
    IN  IF ~(d >= 1 /\ d <= Len(s)) THEN 0 ELSE Frac(RunEnd(s, d, Digit))

\* re.search of (?:^|\s)(\d{2,}(?:[.,]\d+)?)\s*$ : group 1, or <<0, 0>>.
SearchNumberAtEnd(s) ==
    LET DigitPos(i) ==
            IF i = 1 /\ s[1] \in Digit THEN 1
            ELSE IF s[i] \in WS THEN i + 1 ELSE 0
        Ok(d, e) == d # 0 /\ e # 0 /\ \E w \in e..RunEnd(s, e, WS) : AtEnd(s, w)
        \* <<i, d, end>>: the match starts at i, its number is d .. end-1
        From(i, d) == <<i, d, TwoDigitNumberEnd(s, d)>>
        hits == {m \in {From(i, DigitPos(i)) : i \in 1..Len(s)} : Ok(m[2], m[3])}
        Leftmost(ms) ==
            IF ms = {} THEN <<0, 0>>
            ELSE Tail(CHOOSE m \in ms : \A q \in ms : m[1] <= q[1])
    IN  Leftmost(hits)

\* re.search of ^(\d{2,}(?:[.,]\d+)?)(?:\s|$) : group 1, or <<0, 0>>.
SearchNumberAtStart(s) ==
    LET Ended(e) ==
            IF e # 0 /\ ((e <= Len(s) /\ s[e] \in WS) \/ AtEnd(s, e))
            THEN <<1, e>> ELSE <<0, 0>>
    IN  Ended(TwoDigitNumberEnd(s, 1))

\* The four patterns of the list, in list order: group 1 of pattern k.
photo_PricePatternGroup(t, k) ==
    IF k = 1 THEN SearchNumberThenCurrency(t, TRUE)
    ELSE IF k = 2 THEN SearchLabelThenNumber(t, {w_tsena, w_stoimost, w_price, w_cost})
    ELSE IF k = 3 THEN SearchNumberAtEnd(t)
    ELSE SearchNumberAtStart(t)

photo_extract_price_from_text(text) ==
    IF text = None \/ text = <<>> THEN None
    ELSE
    LET \* the capture float() accepts is returned; ValueError: continue
        Checked(price) == IF FloatOK(price) THEN price ELSE None
        Captured(t, m) ==
            IF m[1] # 0 THEN Checked(NormalizeNumber(Slice(t, m[1], m[2])))
            ELSE None
        \* the loop; nothing follows it: <<0, 0>> stands for no fallback
        Loop(t) ==
            FirstPrice(t, [k \in 1..4 |-> Captured(t, photo_PricePatternGroup(t, k))],
                       <<0, 0>>)
    IN  Loop(Strip(Lower(text)))

(***************************************************************************)
(* handlers/photo.py: extract_product_info_from_text                       *)
(***************************************************************************)
\* photo.py: the colors list
photo_colors ==
    <<
      <<"k","r","a","s","n","y","j">>,
      <<"s","i","n","i","j">>,
      <<"z","e","l","yo","n","y","j">>,
      <<"z","e","l","e","n","y","j">>,
      <<"zh","yo","l","t","y","j">>,
      <<"zh","e","l","t","y","j">>,
      <<"b","e","l","y","j">>,
      <<"ch","yo","r","n","y","j">>,
      <<"ch","e","r","n","y","j">>,
      <<"r","o","z","o","v","y","j">>,
      <<"o","r","a","n","zh","e","v","y","j">>,
      <<"f","i","o","l","e","t","o","v","y","j">>,
      <<"g","o","l","u","b","o","j">>,
      <<"s","e","r","y","j">>,
      <<"k","o","r","i","ch","n","e","v","y","j">>,
      <<"b","e","zh","e","v","y","j">>
    >>

photo_size_patterns ==
    << [k |-> "sizeword"],
       size_patterns[2],
       [k |-> "dim"],
       [k |-> "words", alts |-> << <<"b", "o", "l", "q", "sh", "o", "j">>,
                                   <<"s", "r", "e", "d", "n", "i", "j">>,
                                   <<"m", "a", "l", "e", "n", "q", "k", "i", "j">> >>] >>

\* text_without_price after the price step (lines 115-121).
PhotoAfterPrice(text, price) ==
    IF Truthy(price) THEN Strip(SubFirst(text, [k |-> "price_rm"])) ELSE text

extract_product_info_from_text(text0) ==
    IF ~Truthy(text0) THEN [f \in {"name", "price", "description", "category",
                                  "color", "size"} |-> None]
    ELSE
    LET \* lines 160-172: the name, the description and the result; cs are
        \* the commas of the text, parts = text_without_price.split(',', 1)
        Result(price, category, size, color, w5, cs) ==
            [name |-> IF w5 = <<>> THEN None
                      ELSE Capitalize(Strip(IF cs = {} THEN w5
                                            ELSE Slice(w5, 1, Min(cs)))),
             price |-> price,
             description |-> IF w5 # <<>> /\ cs # {}
                             THEN DescriptionOf(NonEmptyParts(
                                      Strip(Slice(w5, Min(cs) + 1, Len(w5) + 1))))
                             ELSE None,
             category |-> category,
             color |-> color,
             size |-> size]
        Cleaned(price, category, size, color, w5) ==
            Result(price, category, size, color, w5, {i \in 1..Len(w5) : w5[i] = ","})
        \* lines 148-158: the colour ck is removed, then the clean-up
        Colour(price, category, size, w3, ck) ==
            Cleaned(price, category, size,
                    IF ck = 0 THEN None ELSE Capitalize(photo_colors[ck]),
                    Cleanup(IF ck = 0 THEN w3 ELSE RemoveColor(w3, photo_colors[ck])))
        \* lines 146-147: the first colour that occurs in the text
        Sized(price, category, size, w3) ==
            Colour(price, category, size, w3, FirstColor(w3, photo_colors))
        \* lines 136-141: the size patterns are searched in the lower-cased
        \* text; every match of sz = <<pattern, match>> is removed, ignoring
        \* case
        Size(price, category, w2, low, sz) ==
            Sized(price, category,
                  IF sz[1] = 0 THEN None
                  ELSE Strip(Group1(low, sz[2], photo_size_patterns[sz[1]])),
                  IF sz[1] = 0 THEN w2
                  ELSE Strip(SubAll(w2, photo_size_patterns[sz[1]], <<>>)))
        Lowered(price, category, w2, low) ==
            Size(price, category, w2, low, FirstSizePattern(low, photo_size_patterns))
        Categorised(price, category, w2) == Lowered(price, category, w2, Lower(w2))
        \* lines 124-127: the category
        Category(price, w1) == Categorised(price, CategoryOf(w1), AfterCategory(w1))
        \* lines 115-121: the price
        Priced(text, price) == Category(price, PhotoAfterPrice(text, price))
        Price(text) == Priced(text, photo_extract_price_from_text(text))
    IN  Price(Strip(text0))

(***************************************************************************)
(* utils/helpers.py: sanitize_text, format_price                           *)
(***************************************************************************)
\* re.sub(r'\s+', ' ', s), without recursion (descriptions are long).
CollapseWS(s) ==
    LET t == [i \in 1..Len(s) |->
                 <<IF s[i] \in WS THEN " " ELSE s[i],
                   s[i] \in WS /\ i > 1 /\ s[i - 1] \in WS>>]
        u == SelectSeq(t, LAMBDA x : ~x[2])
    IN  [i \in 1..Len(u) |-> u[i][1]]

Ellipsis == <<".", ".", ".">>

\* sanitize_text(text, max_length); max_length = 0 stands for None.
sanitize_text(text, max_length) ==
    IF ~Truthy(text) THEN <<>>
    ELSE LET t == Strip(CollapseWS(text))
         IN  IF max_length # 0 /\ Len(t) > max_length
             THEN Slice(t, 1, max_length - 3 + 1) \o Ellipsis
             ELSE t

\* The values format_price treats as "no price", lower case.
NoPriceWords ==
    { <<"@n", "@u", "@l", "@l">>, <<"@n", "@o", "@n", "@e">>, <<"@n", "/", "@a">>,
      <<"n", "e", " ", "u", "k", "a", "z", "a", "n", "a">> }

\* re.findall(r'\d+[\.,]?\d*', price)[0] : <<start, end>>, or <<0, 0>>.
FirstNumber(s) ==
    LET ds == {i \in 1..Len(s) : s[i] \in Digit}
    IN  IF ds = {} THEN <<0, 0>>
        ELSE LET e == RunEnd(s, Min(ds), Digit)
                 f == IF e <= Len(s) /\ s[e] \in {".", ","} THEN e + 1 ELSE e
             IN  <<Min(ds), RunEnd(s, f, Digit)>>

\* A variant that appends the marker to the cleaned price without looking
\* for a number in it.
format_price_marker_appended(price0) ==
    IF ~Truthy(price0) THEN <<>> ELSE Strip(price0) \o <<RubSign>>

format_price(price0) ==
    IF ~Truthy(price0) THEN <<>>
    ELSE
    LET price == Strip(price0)
        low == Lower(price)
        m == FirstNumber(price)
        num == ReplaceCh(Slice(price, m[1], m[2]), ",", ".")
    IN  IF price = <<>> \/ low \in NoPriceWords THEN <<>>
        ELSE IF m[1] = 0 THEN price
        ELSE IF \/ Contains(price, <<RubSign>>)
                \/ Contains(low, w_rub)
                \/ Contains(low, <<"@r", "@u", "@b">>)
             THEN num \o <<RubSign>>
        ELSE IF Contains(price, <<"$">>) \/ Contains(low, <<"@u", "@s", "@d">>)
             THEN <<"$">> \o num
        ELSE IF Contains(price, <<"<eur>">>) \/ Contains(low, <<"@e", "@u", "@r">>)
             THEN <<"<eur>">> \o num
        ELSE num \o <<RubSign>>

(***************************************************************************)
(* ai/text_analyzer.py, ai/vision_analyzer.py: parsing the AI's answer     *)
(*                                                                         *)
(* An answer of the AI service is a record: json says what               *)
(* extract_json_from_text finds in it ("none": no JSON; "object": a JSON   *)
(* object; "other": JSON that is no object, a list or a number), and d is  *)
(* the object, a function from its keys to strings or None (JSON null).    *)
(* A dict of features is the sequence key, value, key, value, ...          *)
(***************************************************************************)
\* dict.get(key)
Get(d, key) == IF key \in DOMAIN d THEN d[key] ELSE None

\* a or b, on Optional[str]
OrElse(a, b) == IF Truthy(a) THEN a ELSE b

\* The hard ceiling of the description (max_length=500).
DescriptionCap == 500

\* _parse_ai_response for an answer whose JSON is an object (or none).
parse_ai_response(resp) ==
    IF resp.json = "object" /\ DOMAIN resp.d # {}
    THEN [name |-> sanitize_text(Get(resp.d, "name"), 0),
          price |-> format_price(Get(resp.d, "price")),
          description |-> sanitize_text(Get(resp.d, "description"), DescriptionCap),
          category |-> sanitize_text(Get(resp.d, "category"), 0),
          color |-> sanitize_text(Get(resp.d, "color"), 0),
          size |-> sanitize_text(Get(resp.d, "size"), 0),
          \* data.get('other_features', {})
          other_features |-> IF "other_features" \in DOMAIN resp.d
                             THEN resp.d["other_features"] ELSE <<>>]
    ELSE EmptyInfo

\* _parse_vision_response for an answer whose JSON is an object (or none).
parse_vision_response(resp) ==
    IF resp.json = "object" /\ DOMAIN resp.d # {}
    THEN LET price == OrElse(Get(resp.d, "price"),
                             OrElse(Get(resp.d, "estimated_price_range"),
                                    Get(resp.d, "estimated_price")))
         IN [name |-> sanitize_text(OrElse(Get(resp.d, "product_name"),
                                           Get(resp.d, "name")), 0),
             price |-> IF Truthy(price) THEN price ELSE None,
             description |-> sanitize_text(Get(resp.d, "description"), DescriptionCap),
             category |-> sanitize_text(Get(resp.d, "category"), 0),
             color |-> sanitize_text(Get(resp.d, "color"), 0),
             size |-> sanitize_text(Get(resp.d, "size"), 0),
             \* data.get('features') or data.get('other_features', {})
             other_features |-> IF Truthy(Get(resp.d, "features"))
                                THEN resp.d["features"]
                                ELSE IF "other_features" \in DOMAIN resp.d
                                     THEN resp.d["other_features"] ELSE <<>>]
    ELSE EmptyInfo

\* The class [₽рублейруб\.] with re.IGNORECASE.
RubClass == {RubSign, "r", "u", "b", "l", "e", "j", ".", "R", "U", "B", "L", "E", "J"}
MoneySigns == {"$", "<eur>", "<gbp>"}

\* The first run of digits of the leftmost match of price pattern k of
\* _extract_basic_info: <<start, end>>, or <<0, 0>>.
BasicPriceDigits(s, k) ==
    LET Run(d) == <<d, RunEnd(s, d, Digit)>>
        IsDigit(i) == i >= 1 /\ i <= Len(s) /\ s[i] \in Digit
        In(i, C) == i >= 1 /\ i <= Len(s) /\ s[i] \in C
        \* the start of the digits of a match at i, or 0
        D(i) ==
            CASE k = 1 ->
                    IF IsDigit(i) /\ In(RunEnd(s, RunEnd(s, i, Digit), WS), RubClass)
                    THEN i ELSE 0
              [] k = 2 ->
                    LET a == RunEnd(s, i + Len(w_tsena), {":", "-"} \cup WS)
                    IN  IF LitAtI(s, i, w_tsena) /\ IsDigit(a) THEN a ELSE 0
              [] k = 3 ->
                    LET a == RunEnd(s, i + 1, WS)
                    IN  IF In(i, MoneySigns) /\ IsDigit(a) THEN a ELSE 0
              [] k = 4 ->
                    LET e == RunEnd(s, i, Digit)
                        f == IF In(e, {".", ","}) THEN RunEnd(s, e + 1, Digit) ELSE e
                    IN  IF IsDigit(i) /\ In(RunEnd(s, f, WS), MoneySigns) THEN i ELSE 0
              [] k = 5 ->
                    LET a == RunEnd(s, RunEnd(s, i, Digit), WS)
                    IN  IF IsDigit(i) /\ (LitAtI(s, a, w_rub) \/ In(a, {RubSign}))
                        THEN i ELSE 0
        hits == {i \in 1..Len(s) : D(i) # 0}
    IN  IF hits = {} THEN <<0, 0>> ELSE Run(D(Min(hits)))

\* text.split('\n')[0]
FirstLine(s) ==
    LET nl == {i \in 1..Len(s) : s[i] = "\n"}
    IN  IF nl = {} THEN s ELSE Slice(s, 1, Min(nl))

\* '\n'.join(lines[1:]) if len(lines) > 1 else text
RestLines(s) ==
    LET nl == {i \in 1..Len(s) : s[i] = "\n"}
    IN  IF nl = {} THEN s ELSE Slice(s, Min(nl) + 1, Len(s) + 1)

\* TextAnalyzer._extract_basic_info, for a str
extract_basic_info(text) ==
    LET ok == {k \in 1..5 : BasicPriceDigits(text, k)[1] # 0}
        m == BasicPriceDigits(text, Min(ok))
    IN  [name |-> FirstLine(text),
         price |-> IF ok = {} THEN None ELSE Slice(text, m[1], m[2]) \o <<RubSign>>,
         description |-> RestLines(text),
         category |-> None, color |-> None, size |-> None,
         other_features |-> None]

(***************************************************************************)
(* The heuristic extractor as a pure function: SpecLocal draws a text and  *)
(* applies extract_product_info_locally to it.                             *)
(***************************************************************************)
\* The pieces the input texts are made of.
LocalChunks ==
    { <<"4", "2">>, <<"1", "5", "0", "0">>, <<" ">>, <<"\n">>, <<",">>,
      <<"r", "u", "b">>, <<"ts", "e", "n", "a", " ">>, <<"K", "e", "d", "y">> }

\* An input text is the concatenation of at most MaxChunks pieces.
MaxChunks == 4

RECURSIVE TextsOf(_, _)
TextsOf(chunks, n) ==
    IF n = 0 THEN {<<>>}
    ELSE LET shorter == TextsOf(chunks, n - 1)
         IN  shorter \cup {t \o c : t \in shorter, c \in chunks}

\* The text of the documented example: "Кеды, 3400 руб, синие".
t_example ==
    <<"K", "e", "d", "y", ",", " ", "3", "4", "0", "0", " ", "r", "u", "b",
      ",", " ", "s", "i", "n", "i", "e">>

LocalTexts == TextsOf(LocalChunks, MaxChunks) \cup {t_example}

Idle == [phase |-> "idle"]

LocalInit ==
    /\ px \in {[phase |-> "input", text |-> t, info |-> EmptyInfo] : t \in LocalTexts}
    /\ fsm_state = "none" /\ data = <<>> /\ task = Idle /\ trace = Idle
    /\ keyboards = {} /\ req = Idle /\ bld = Idle

\* One call of extract_product_info_locally(text).
LocalExtract ==
    /\ px.phase = "input"
    /\ px' = [px EXCEPT !.phase = "done",
                        !.info = extract_product_info_locally(px.text)]
    /\ UNCHANGED <<fsm_state, data, task, trace, keyboards, req, bld>>

LocalNext == LocalExtract

SpecLocal == LocalInit /\ [][LocalNext]_vars

\* The text extract_price_from_text is called with (line 89: text.strip()).
PxText == Strip(px.text)

\* The patterns of the list that match the text.
PxMatching == {k \in 1..3 : PricePatternGroup(PxText, k)[1] # 0}

\* The number captured by pattern k: group 1 without its spaces, with a
\* decimal point for a decimal comma.
PxNumber(k) ==
    LET m == PricePatternGroup(PxText, k)
    IN  ReplaceCh(RemoveCh(Slice(PxText, m[1], m[2]), " "), ",", ".")

\* s ends in the currency marker.
EndsInMarker(s) == s # None /\ Len(s) >= 1 /\ s[Len(s)] = RubSign

\* The price without its final " ₽" (a space and the marker).
NumericPart(price) == Slice(price, 1, Len(price) - 1)

C11_ExampleRecord ==
    (px.phase = "done" /\ px.text = t_example) =>
        /\ px.info.name = <<"K", "e", "d", "y">>
        /\ px.info.price = <<"3", "4", "0", "0", RubSign>>
        /\ px.info.color = <<"S", "i", "n", "i", "j">>

(***************************************************************************)
(* ai/client.py: OpenRouterClient._make_request                            *)
(*                                                                         *)
(* req.attempt is the loop variable, req.hist the outcomes of the HTTP     *)
(* attempts made so far, req.waits the arguments of asyncio.sleep.        *)
(***************************************************************************)
max_retries == 3
retry_delay == 2

\* What one HTTP attempt can do:
\*   ok200    status 200 and response.json() returns the body
\*   bad200   status 200 and response.json() raises (the body is no JSON)
\*   s429     status 429
\*   status   any other status
\*   timeout  asyncio.TimeoutError
\*   connerr  any other exception of the session (connection refused, ...)
Outcomes == {"ok200", "bad200", "s429", "status", "timeout", "connerr"}

RECURSIVE Pow2(_)
Pow2(n) == IF n = 0 THEN 1 ELSE 2 * Pow2(n - 1)

\* A variant that waits the same time after every rate-limit response.
wait_time_flat(attempt) == retry_delay

\* Line 84: wait_time = self.retry_delay * (2 ** attempt)
wait_time(attempt) == retry_delay * Pow2(attempt)

\* A variant that returns the parsed body whatever the status was.
AfterAttempt_any_status(r, o) ==
    LET h == Append(r.hist, o)
    IN  IF o \in {"ok200", "status"}
        THEN [r EXCEPT !.phase = "returned", !.hist = h, !.result = <<"body", Len(h)>>]
        ELSE [r EXCEPT !.attempt = r.attempt + 1, !.hist = h]

\* The body of the for loop (lines 72-103) for one attempt with outcome o.
AfterAttempt(r, o) ==
    LET h == Append(r.hist, o)
        last == r.attempt = max_retries - 1
    IN  CASE o = "ok200" ->
                \* return await response.json()
                [r EXCEPT !.phase = "returned", !.hist = h,
                          !.result = <<"body", Len(h)>>]
          [] o = "s429" ->
                \* wait_time = retry_delay * 2 ** attempt; sleep; next attempt
                [r EXCEPT !.attempt = r.attempt + 1, !.hist = h,
                          !.waits = Append(r.waits, wait_time(r.attempt))]
          [] o = "timeout" ->
                \* except asyncio.TimeoutError: sleep unless this was the last
                [r EXCEPT !.attempt = r.attempt + 1, !.hist = h,
                          !.waits = IF last THEN r.waits
                                    ELSE Append(r.waits, retry_delay)]
          [] o \in {"bad200", "status", "connerr"} ->
                \* the exception (of json(), or the one raised for the status
                \* inside the try) reaches  except Exception
                IF last
                THEN [r EXCEPT !.phase = "raised", !.hist = h]
                ELSE [r EXCEPT !.attempt = r.attempt + 1, !.hist = h,
                               !.waits = Append(r.waits, retry_delay)]

ReqIdle == [phase |-> "loop", attempt |-> 0, hist |-> <<>>, waits |-> <<>>,
            result |-> <<>>]

ReqInit ==
    /\ req = ReqIdle
    /\ fsm_state = "none" /\ data = <<>> /\ task = Idle /\ trace = Idle
    /\ keyboards = {} /\ px = Idle /\ bld = Idle

\* One pass of the loop body.
ReqAttempt ==
    /\ req.phase = "loop"
    /\ req.attempt < max_retries
    /\ \E o \in Outcomes : req' = AfterAttempt(req, o)
    /\ UNCHANGED <<fsm_state, data, task, trace, keyboards, px, bld>>

\* The loop is over: raise Exception("API request failed after all retries").
ReqExhausted ==
    /\ req.phase = "loop"
    /\ req.attempt >= max_retries
    /\ req' = [req EXCEPT !.phase = "raised"]
    /\ UNCHANGED <<fsm_state, data, task, trace, keyboards, px, bld>>

ReqNext == ReqAttempt \/ ReqExhausted

SpecRequest == ReqInit /\ [][ReqNext]_vars

ReqBounded ==
    /\ Len(req.hist) <= 3
    /\ req.phase \in {"loop", "returned", "raised"}
    /\ req.phase = "loop" => ENABLED ReqNext

ReqReturnsOnly200 ==
    /\ req.phase = "returned" =>
          /\ req.hist[Len(req.hist)] = "ok200"
          /\ req.result = <<"body", Len(req.hist)>>
    /\ req.phase # "returned" => req.result = <<>>

\* C6 as stated: at most 3 attempts are made, none after a 200 response;
\* the call ends by returning the body of a 200 response or by raising,
\* and never returns without a 200 response.
C6_NoAttemptAfter200 ==
    /\ ReqBounded
    /\ ReqReturnsOnly200
    /\ \A i \in 1..(Len(req.hist) - 1) : req.hist[i] \notin {"ok200", "bad200"}

\* C6 as amended: at most 3 attempts are made, none after a 200 response
\* whose body response.json() decoded (a 200 response whose body cannot be
\* decoded counts as a failed attempt and is retried); the call ends by
\* returning the body of a 200 response or by raising, and never returns
\* without a 200 response.
C6_NoAttemptAfterDecoded200 ==
    /\ ReqBounded
    /\ ReqReturnsOnly200
    /\ \A i \in 1..(Len(req.hist) - 1) : req.hist[i] # "ok200"

\* The third attempt answered 200 after a rate limit and a timeout.
C6_Witness ==
    /\ req.phase = "returned"
    /\ req.hist = <<"s429", "timeout", "ok200">>

(***************************************************************************)
(* generator/builder.py: CardBuilder.build_card                            *)
(*                                                                         *)
(* bld.files is the cards directory: what each card path holds.  A file    *)
(* holds <<"absent">> (no file), <<"png", n>> (the complete bytes returned *)
(* by the n-th render) or <<"partial">> (opened, bytes missing).           *)
(***************************************************************************)
MaxBuilds == 3

CardPaths == {"card_minimal_0a1b2c3d.png", "card_dark_0a1b2c3d.png"}


\* A variant that opens the card file before it renders.
AfterRender_open_first(b, ok) ==
    IF ok
    THEN [b EXCEPT !.phase = "saving", !.png = <<"png", b.n>>,
                   !.files = [b.files EXCEPT ![b.path] = <<"partial">>]]
    ELSE [b EXCEPT !.phase = "raised", !.cause = "render",
                   !.files = [b.files EXCEPT ![b.path] = <<"partial">>]]

\* Lines 68-78 and 89-91: self.template.render(...) returns the image bytes
\* or raises; the exception is logged and raised again.
AfterRender(b, ok) ==
    IF ok
    THEN [b EXCEPT !.phase = "saving", !.png = <<"png", b.n>>]
    ELSE [b EXCEPT !.phase = "raised", !.cause = "render"]

\* Lines 81-87 and 89-91: makedirs, open(card_path, 'wb'), write, return.
\* open() truncates the file; a write that fails leaves it incomplete.
AfterSave(b, o) ==
    CASE o = "ok" ->
            [b EXCEPT !.phase = "returned", !.result = b.path,
                      !.files = [b.files EXCEPT ![b.path] = b.png]]
      [] o \in {"makedirs_fails", "open_fails"} ->
            [b EXCEPT !.phase = "raised", !.cause = o]
      [] o = "write_fails" ->
            [b EXCEPT !.phase = "raised", !.cause = o,
                      !.files = [b.files EXCEPT ![b.path] = <<"partial">>]]

BuildInit ==
    /\ \E f \in [CardPaths -> {<<"absent">>, <<"png", 0>>}] :
          bld = [phase |-> "ready", n |-> 0, files |-> f, files0 |-> f,
                 path |-> None, png |-> None, result |-> None, cause |-> None]
    /\ fsm_state = "none" /\ data = <<>> /\ task = Idle /\ trace = Idle
    /\ keyboards = {} /\ px = Idle /\ req = Idle

\* build_card is called (lines 56-65): the card path is fixed.
BuildCall ==
    /\ bld.phase \in {"ready", "returned", "raised"}
    /\ bld.n < MaxBuilds
    /\ \E p \in CardPaths :
          bld' = [bld EXCEPT !.phase = "rendering", !.n = bld.n + 1,
                             !.path = p, !.files0 = bld.files,
                             !.png = None, !.result = None, !.cause = None]
    /\ UNCHANGED <<fsm_state, data, task, trace, keyboards, px, req>>

BuildRender ==
    /\ bld.phase = "rendering"
    /\ \E ok \in BOOLEAN : bld' = AfterRender(bld, ok)
    /\ UNCHANGED <<fsm_state, data, task, trace, keyboards, px, req>>

BuildSave ==
    /\ bld.phase = "saving"
    /\ \E o \in {"ok", "makedirs_fails", "open_fails", "write_fails"} :
          bld' = AfterSave(bld, o)
    /\ UNCHANGED <<fsm_state, data, task, trace, keyboards, px, req>>

BuildNext == BuildCall \/ BuildRender \/ BuildSave

SpecBuild == BuildInit /\ [][BuildNext]_vars

\* C8: build_card returns the path of a file that holds the complete bytes
\* its render call returned, or it raises and returns no path; when render
\* raises, the card path holds what it held before the call (no file is
\* created or overwritten there).
C8_RenderBeforeWrite ==
    /\ bld.phase = "returned" =>
          /\ bld.result = bld.path
          /\ bld.png = <<"png", bld.n>>
          /\ bld.files[bld.path] = bld.png
    /\ bld.phase = "raised" => bld.result = None
    /\ bld.phase # "returned" => bld.result = None
    /\ (bld.phase = "raised" /\ bld.cause = "render") =>
          bld.files[bld.path] = bld.files0[bld.path]

\* render raised for a path that held an earlier card, which is still there.
C8_Witness ==
    /\ bld.phase = "raised"
    /\ bld.cause = "render"
    /\ bld.files0[bld.path] \in {<<"png", n>> : n \in 0..MaxBuilds}
    /\ bld.files[bld.path] = bld.files0[bld.path]

(***************************************************************************)
(* The conversation: handlers/menu.py, handlers/description.py,            *)
(* handlers/photo.py.  One action is one handler, run to its end; what     *)
(* the AI service answers is an input of the handler.                      *)
(***************************************************************************)
\* A str-valued key the FSM data does not hold.
Absent == <<"<absent>">>
\* No product_info in the FSM data.
NoInfo == [absent |-> TRUE]
\* Instead of a record: the call raised an exception.
Raised == [raised |-> TRUE]

SixFields == {"name", "price", "description", "category", "color", "size"}

\* FSMContext data after construction and after state.clear().
NoData == [original_text |-> Absent, photo_url |-> Absent, product_info |-> NoInfo]

\* data.get("product_info", {}) read as a ProductInfo: a missing key is None.
StoredInfo == IF data.product_info = NoInfo THEN EmptyInfo ELSE data.product_info

w_ne_predostavleno == <<"N","e"," ","p","r","e","d","o","s","t","a","v","l","e","n","o">>

\* ---- ai/text_analyzer.py, ai/vision_analyzer.py: the two analyzers ----
\* An answer a has a.ok: the request returned (FALSE: it raised, after a
\* network error, a non-200 status, a timeout or the last retry).

\* A variant that answers a failed request with the all-null record.
extract_product_info_all_null(text, a) ==
    IF text = None THEN Raised
    ELSE IF ~a.ok \/ a.json = "other" THEN EmptyInfo
    ELSE parse_ai_response(a)

\* TextAnalyzer.extract_product_info (lines 79-100).  Any exception, of the
\* request or of .get on JSON that is no object, ends in
\* _extract_basic_info(text), which raises when text is no str.
extract_product_info(text, a) ==
    IF text = None THEN Raised
    ELSE IF ~a.ok \/ a.json = "other" THEN extract_basic_info(text)
    ELSE parse_ai_response(a)

\* VisionAnalyzer.analyze_product_image (lines 70-87).
analyze_product_image(a) ==
    IF ~a.ok \/ a.json = "other" THEN EmptyInfo
    ELSE parse_vision_response(a)

\* ---- handlers/photo.py: the two merges ----
\* description of the merged record: f"{current}. {extra}"
JoinDescription(current, extra) == current \o <<".", " ">> \o extra

\* A variant that takes the caption's price only when the photo gave none.
caption_price_fills_gap(product_info, caption_price) ==
    IF Truthy(caption_price) /\ ~Truthy(product_info.price)
    THEN [product_info EXCEPT !.price = caption_price]
    ELSE product_info

\* Lines 208-210: a price found in the caption replaces the photo's price.
caption_price_first(product_info, caption_price) ==
    IF Truthy(caption_price)
    THEN [product_info EXCEPT !.price = caption_price]
    ELSE product_info

\* Lines 220-230: the caption's record over the photo's record.
caption_merge(product_info, caption_info) ==
    [product_info EXCEPT
        !.name = IF Truthy(caption_info.name) THEN caption_info.name ELSE @,
        !.price = IF Truthy(caption_info.price) THEN caption_info.price ELSE @,
        !.description =
            IF Truthy(caption_info.description)
            THEN IF Truthy(@) THEN JoinDescription(@, caption_info.description)
                 ELSE caption_info.description
            ELSE @,
        !.category = IF Truthy(caption_info.category) THEN caption_info.category ELSE @]

\* A variant that assigns every field of the text side, null or not.
user_merge_unconditional(product_dict, extracted) ==
    [product_dict EXCEPT
        !.name = extracted.name, !.price = extracted.price,
        !.description = extracted.description, !.category = extracted.category,
        !.color = extracted.color, !.size = extracted.size]

\* Lines 358-373: the user's text over the stored record.
user_merge(product_dict, extracted) ==
    [product_dict EXCEPT
        !.name = IF Truthy(extracted.name) THEN extracted.name ELSE @,
        !.price = IF Truthy(extracted.price) THEN extracted.price ELSE @,
        !.description =
            IF Truthy(extracted.description)
            THEN IF Truthy(@) /\ @ # w_ne_predostavleno
                 THEN JoinDescription(@, extracted.description)
                 ELSE extracted.description
            ELSE @,
        !.category = IF Truthy(extracted.category) THEN extracted.category ELSE @,
        !.color = IF Truthy(extracted.color) THEN extracted.color ELSE @,
        !.size = IF Truthy(extracted.size) THEN extracted.size ELSE @]

\* ---- the inputs ----
t_kedy == <<"K","e","d","y">>
t_kedy_full == <<"K","e","d","y",","," ","u","d","o","b","n","y","e",","," ","1","5","0","0"," ","r","u","b">>
t_price == <<"1","5","0","0"," ","r","u","b">>
t_kurtka_warm == <<"K","u","r","t","k","a",","," ","t","yo","p","l","a","ya">>
t_red_kurtka == <<"K","r","a","s","n","a","ya"," ","k","u","r","t","k","a">>
t_kurtka == <<"K","u","r","t","k","a">>
t_red == <<"K","r","a","s","n","y","j">>
t_white == <<"B","e","l","y","j">>
t_warm == <<"t","yo","p","l","a","ya">>

\* A description longer than the cap: n times the letter a.
LongText(n) == [i \in 1..n |-> "a"]

\* message.text of a text message.
Messages == {t_kedy, t_kedy_full, t_price, t_kurtka_warm}

\* message.caption or "" of a photo message.
Captions == {<<>>, t_price, t_red_kurtka}

Failed == [ok |-> FALSE, json |-> "none", d |-> <<>>]
NoJson == [ok |-> TRUE, json |-> "none", d |-> <<>>]
NoObject == [ok |-> TRUE, json |-> "other", d |-> <<>>]

\* What the AI service answers to the text prompt.  A features mapping is
\* the sequence of its <<key, value>> items.
TextAnswers ==
    { Failed, NoJson, NoObject,
      [ok |-> TRUE, json |-> "object",
       d |-> [name |-> t_kurtka, price |-> <<"$", "1", "0", "0">>,
              color |-> t_red, description |-> t_warm,
              other_features |-> << <<"material", "cotton">>, <<"season", "winter">> >>]] }

\* What the AI service answers to the image prompt.
VisionAnswers ==
    { Failed, NoJson,
      [ok |-> TRUE, json |-> "object", d |-> [product_name |-> t_kedy]],
      [ok |-> TRUE, json |-> "object",
       d |-> [product_name |-> t_kedy, price |-> <<"1", "5", "0", "0">>,
              color |-> t_white, description |-> LongText(DescriptionCap + 100),
              features |-> << <<"material", "leather">>, <<"brand", "x">> >>]] }

TemplateNames == {"minimal", "dark", "marketplace"}

\* The values of the extractors on the inputs, computed once.
LocallyOf == [t \in Messages |-> extract_product_info_locally(t)]
FromTextOf == [t \in Messages |-> extract_product_info_from_text(t)]
CaptionPriceOf == [c \in Captions |-> photo_extract_price_from_text(c)]
AnalysisOf ==
    [t \in Messages \cup Captions \cup {None}, a \in TextAnswers |->
        extract_product_info(t, a)]
VisionOf == [a \in VisionAnswers |-> analyze_product_image(a)]

\* An extractor call: the function, its text, whether the AI request it
\* made failed, and what it returned.
Call(fn, text, failed, ret) ==
    [fn |-> fn, text |-> text, failed |-> failed, ret |-> ret]

Ran(handler, calls) == [phase |-> "ran", handler |-> handler, calls |-> calls]

Init ==
    /\ fsm_state = "none"
    /\ data = NoData
    /\ keyboards = {}
    /\ task = Idle /\ trace = Idle
    /\ px = Idle /\ req = Idle /\ bld = Idle

\* ---- handlers/menu.py ----
start_handler ==
    /\ fsm_state' = "waiting_for_input"
    /\ task' = Ran("start_handler", <<>>) /\ trace' = Idle
    /\ UNCHANGED <<data, keyboards, px, req, bld>>

cancel_handler ==
    /\ data' = NoData
    /\ fsm_state' = "waiting_for_input"
    /\ task' = Ran("cancel_handler", <<>>) /\ trace' = Idle
    /\ UNCHANGED <<keyboards, px, req, bld>>

create_from_text_handler ==
    /\ fsm_state' = "processing_text"
    /\ task' = Ran("create_from_text_handler", <<>>) /\ trace' = Idle
    /\ UNCHANGED <<data, keyboards, px, req, bld>>

create_from_photo_handler ==
    /\ fsm_state' = "processing_image"
    /\ task' = Ran("create_from_photo_handler", <<>>) /\ trace' = Idle
    /\ UNCHANGED <<data, keyboards, px, req, bld>>

\* ---- handlers/description.py ----
\* The body of process_text_description (lines 192-260) for a message with
\* the text `text` (None: the message holds no text) when the AI service
\* answers a.  With no text, extract_product_info raises, the fallback of
\* line 213 raises at len(user_text), and the outer except takes over.
TextDescription(handler, text, a) ==
    \E local \in {IF text = None THEN EmptyInfo ELSE LocallyOf[text]},
       ai \in {AnalysisOf[text, a]} :
        LET use_ai == ~Truthy(local.name)
            info == IF use_ai THEN ai ELSE local
            calls == <<Call("extract_product_info_locally", text, FALSE, local)>> \o
                     IF use_ai
                     THEN <<Call("extract_product_info", text, text # None /\ ~a.ok, ai)>>
                     ELSE <<>>
        IN  /\ data' = [data EXCEPT !.original_text = text,
                                    !.product_info = IF info = Raised THEN @ ELSE info]
            /\ fsm_state' = IF info = Raised THEN "waiting_for_input"
                            ELSE "confirming_extracted_data"
            /\ keyboards' = IF info = Raised THEN keyboards
                            ELSE keyboards \cup {"confirm_info"}
            /\ task' = Ran(handler, calls)
            /\ trace' = Idle
            /\ UNCHANGED <<px, req, bld>>

process_text_description ==
    /\ fsm_state = "processing_text"
    /\ \E text \in Messages \cup {None}, a \in TextAnswers :
          TextDescription("process_text_description", text, a)

process_missing_info ==
    /\ fsm_state = "waiting_for_missing_info"
    /\ \E text \in Messages \cup {None}, a \in TextAnswers :
          TextDescription("process_missing_info", text, a)

confirm_info_handler ==
    /\ "confirm_info" \in keyboards
    /\ fsm_state' = "selecting_template"
    /\ keyboards' = keyboards \cup {"template"}
    /\ task' = Ran("confirm_info_handler", <<>>) /\ trace' = Idle
    /\ UNCHANGED <<data, px, req, bld>>

edit_info_handler ==
    /\ "confirm_info" \in keyboards
    /\ fsm_state' = "waiting_for_missing_info"
    /\ task' = Ran("edit_info_handler", <<>>) /\ trace' = Idle
    /\ UNCHANGED <<data, keyboards, px, req, bld>>

\* A render call: the record create_card_from_text / create_card_from_image
\* hands to build_card, and whether build_card returned.
Render(flow, template, ok) ==
    [phase |-> "render", flow |-> flow, template |-> template,
     info |-> StoredInfo, ok |-> ok]

\* Lines 318-387.  The callback has no state filter: any template button
\* sent earlier fires it.  create_card_from_text raises at text.encode()
\* when the stored original_text is None, before build_card is called.
select_template_handler ==
    /\ "template" \in keyboards
    /\ \E template \in TemplateNames, ok \in BOOLEAN :
          LET called == data.original_text # None
          IN  /\ trace' = IF called THEN Render("text", template, ok) ELSE Idle
              /\ fsm_state' = IF called /\ ok THEN "waiting_for_input" ELSE fsm_state
    /\ task' = Ran("select_template_handler", <<>>)
    /\ UNCHANGED <<data, keyboards, px, req, bld>>

\* ---- handlers/photo.py ----
\* Lines 184-278.  file_ok: bot.get_file returned.
process_product_photo ==
    /\ fsm_state = "processing_image"
    /\ \E caption \in Captions, file_ok \in BOOLEAN,
          va \in VisionAnswers, ta \in TextAnswers :
          \E caption_price \in {CaptionPriceOf[caption]},
             vision \in {VisionOf[va]},
             caption_info \in {AnalysisOf[caption, ta]} :
          LET priced == caption_price_first(vision, caption_price)
              use_ai == Truthy(caption) /\ ~Truthy(caption_price)
              product_info == IF use_ai THEN caption_merge(priced, caption_info)
                              ELSE priced
              text_side == IF use_ai THEN caption_info
                           ELSE [EmptyInfo EXCEPT !.price = caption_price]
              first == <<Call("extract_price_from_text", caption, FALSE, caption_price)>>
              calls == first \o <<Call("analyze_product_image", None, ~va.ok, vision)>> \o
                       IF use_ai
                       THEN <<Call("extract_product_info", caption, ~ta.ok, caption_info)>>
                       ELSE <<>>
          IN  IF file_ok
              THEN /\ data' = [data EXCEPT !.photo_url = <<"@u", "@r", "@l">>,
                                           !.product_info = product_info]
                   /\ fsm_state' = "confirming_extracted_data"
                   /\ keyboards' = keyboards \cup {"photo_confirm"}
                   /\ task' = Ran("process_product_photo", calls)
                   /\ trace' = IF use_ai \/ Truthy(caption_price)
                               THEN [phase |-> "merge", where |-> "caption",
                                     photo |-> vision, text |-> text_side,
                                     merged |-> product_info]
                               ELSE Idle
              ELSE /\ fsm_state' = "waiting_for_input"
                   /\ task' = Ran("process_product_photo", first)
                   /\ trace' = Idle
                   /\ UNCHANGED <<data, keyboards>>
    /\ UNCHANGED <<px, req, bld>>

\* Lines 281-290: a message without a photo in the photo mode.
invalid_photo_handler ==
    /\ fsm_state = "processing_image"
    /\ task' = Ran("invalid_photo_handler", <<>>) /\ trace' = Idle
    /\ UNCHANGED <<fsm_state, data, keyboards, px, req, bld>>

confirm_photo_info_handler ==
    /\ "photo_confirm" \in keyboards
    /\ fsm_state' = "selecting_template"
    /\ keyboards' = keyboards \cup {"photo_template"}
    /\ task' = Ran("confirm_photo_info_handler", <<>>) /\ trace' = Idle
    /\ UNCHANGED <<data, px, req, bld>>

\* Lines 348-404.  No keyboard holds the button of edit_photo_info_handler
\* (photo_confirm_no), so that handler never runs.
add_text_to_photo_handler ==
    /\ fsm_state = "confirming_extracted_data"
    /\ \E user_text \in Messages, stored \in {StoredInfo} :
          \E extracted \in {FromTextOf[user_text]} :
          \E product_dict \in {user_merge(stored, extracted)} :
              /\ data' = [data EXCEPT !.product_info = product_dict]
              /\ task' = Ran("add_text_to_photo_handler",
                             <<Call("extract_product_info_from_text", user_text,
                                    FALSE, extracted)>>)
              /\ trace' = [phase |-> "merge", where |-> "user",
                           photo |-> stored, text |-> extracted,
                           merged |-> product_dict]
    /\ fsm_state' = "selecting_template"
    /\ keyboards' = keyboards \cup {"photo_template"}
    /\ UNCHANGED <<px, req, bld>>

\* Lines 416-455.
select_photo_template_handler ==
    /\ "photo_template" \in keyboards
    /\ \E template \in TemplateNames, ok \in BOOLEAN :
          /\ trace' = Render("photo", template, ok)
          /\ fsm_state' = IF ok THEN "waiting_for_input" ELSE fsm_state
    /\ task' = Ran("select_photo_template_handler", <<>>)
    /\ UNCHANGED <<data, keyboards, px, req, bld>>

Next ==
    \/ start_handler
    \/ cancel_handler
    \/ create_from_text_handler
    \/ create_from_photo_handler
    \/ process_text_description
    \/ process_missing_info
    \/ confirm_info_handler
    \/ edit_info_handler
    \/ select_template_handler
    \/ process_product_photo
    \/ invalid_photo_handler
    \/ confirm_photo_info_handler
    \/ add_text_to_photo_handler
    \/ select_photo_template_handler

Spec == Init /\ [][Next]_vars

TypeOK ==
    /\ fsm_state \in {"none", "waiting_for_input", "processing_text",
                      "processing_image", "confirming_extracted_data",
                      "selecting_template", "waiting_for_missing_info"}
    /\ keyboards \subseteq {"confirm_info", "template", "photo_confirm", "photo_template"}
    /\ trace.phase \in {"idle", "merge", "render"}
    /\ data.product_info # Raised

(***************************************************************************)
(* Properties of the conversation.  "Has a value" is Python truthiness:    *)
(* the merges test  if x:  and so treat None and '' alike.                 *)
(***************************************************************************)
\* C1: in both merges, for each of the six fields, when the photo's record
\* or the text's record has a value, the merged record has one.
C1_FallbackComplete ==
    trace.phase = "merge" =>
        \A f \in SixFields :
            (Truthy(trace.photo[f]) \/ Truthy(trace.text[f])) =>
                Truthy(trace.merged[f])

\* C2: a merge step never takes a value away, and it changes a field only
\* when the text side has a value for that field.
C2_NoDowngrade ==
    trace.phase = "merge" =>
        \A f \in SixFields :
            /\ Truthy(trace.photo[f]) => Truthy(trace.merged[f])
            /\ trace.merged[f] # trace.photo[f] => Truthy(trace.text[f])

\* The user's text gave a price and no name: the price of the record was
\* replaced, its name and its colour stayed.
C2_Witness ==
    /\ trace.phase = "merge" /\ trace.where = "user"
    /\ Truthy(trace.photo.price) /\ Truthy(trace.text.price)
    /\ trace.merged.price = trace.text.price
    /\ trace.merged.price # trace.photo.price
    /\ ~Truthy(trace.text.name) /\ Truthy(trace.photo.name)
    /\ trace.merged.name = trace.photo.name
    /\ Truthy(trace.photo.color) /\ trace.merged.color = trace.photo.color

EndsWith(s, w) ==
    Len(s) >= Len(w) /\ SubSeq(s, Len(s) - Len(w) + 1, Len(s)) = w

\* p ends in a currency sign or in a word for the rouble.
EndsInCurrency(p) ==
    \/ \E sign \in {RubSign} \cup MoneySigns : EndsWith(p, <<sign>>)
    \/ \E w \in {w_rub, w_rub \o <<".">>, w_rublej, w_rublya} : EndsWith(Lower(p), w)

\* C3: the price of the stored record, and of a record handed to
\* rendering, ends in a currency marker when it has a value.
C3_PriceEndsInMarker ==
    /\ Truthy(StoredInfo.price) => EndsInCurrency(StoredInfo.price)
    /\ trace.phase = "render" =>
          (Truthy(trace.info.price) => EndsInCurrency(trace.info.price))

\* C4: the description of the stored record is at most 500 characters long.
C4_DescriptionCapped ==
    Truthy(StoredInfo.description) => Len(StoredInfo.description) <= 500

AnalyzerCalls == {"extract_product_info", "analyze_product_image"}

\* C5 as stated: an analyzer whose AI request failed returns the all-null
\* record (and raises nothing).
C5_FailureGivesAllNull ==
    task.phase = "ran" =>
        \A i \in DOMAIN task.calls :
            (task.calls[i].fn \in AnalyzerCalls /\ task.calls[i].failed) =>
                task.calls[i].ret = EmptyInfo

\* C5 as amended: an analyzer whose AI request failed raises nothing; the
\* image analyzer returns the all-null record; the text analyzer returns
\* the record of _extract_basic_info: its name is the first line of the
\* text, its description the rest of the text (the whole text when there is
\* one line), its price is null or digits of the text followed by the
\* rouble sign, and its other fields are null.
C5_FailureDegrades ==
    task.phase = "ran" =>
        \A i \in DOMAIN task.calls :
            LET c == task.calls[i]
                r == c.ret
                nl == {k \in 1..Len(c.text) : c.text[k] = "\n"}
            IN  (c.fn \in AnalyzerCalls /\ c.failed) =>
                    /\ r # Raised
                    /\ c.fn = "analyze_product_image" => r = EmptyInfo
                    /\ c.fn = "extract_product_info" =>
                          /\ IF nl = {}
                             THEN r.name = c.text /\ r.description = c.text
                             ELSE /\ c.text = r.name \o <<"\n">> \o r.description
                                  /\ Len(r.name) = Min(nl) - 1
                          /\ \/ r.price = None
                             \/ /\ EndsInMarker(r.price)
                                /\ Len(r.price) >= 2
                                /\ \A k \in 1..(Len(r.price) - 1) : r.price[k] \in Digit
                                /\ Contains(c.text, NumericPart(r.price))
                          /\ r.category = None /\ r.color = None /\ r.size = None
                          /\ r.other_features = None

\* The request for a text failed, and the text analyzer answered with the
\* text as the name and a price taken from it.
C5_Witness ==
    /\ task.phase = "ran"
    /\ \E i \in DOMAIN task.calls :
          /\ task.calls[i].fn = "extract_product_info"
          /\ task.calls[i].failed
          /\ task.calls[i].ret # Raised
          /\ task.calls[i].ret.name = task.calls[i].text
          /\ Truthy(task.calls[i].ret.price)

\* C7: a record handed to rendering has a name and a price or a
\* description.
C7_RenderOnlyUsable ==
    trace.phase = "render" => has_required_fields(trace.info)

HeuristicCalls == {"extract_product_info_locally", "extract_product_info_from_text"}

\* C9: the text analyzer is called on a text only after a heuristic
\* extractor was called on that text and found no name; when
\* extract_product_info_locally finds a name, the text analyzer is not
\* called and the heuristic record is the stored one.
C9_AIOnlyAfterHeuristic ==
    task.phase = "ran" =>
        /\ \A i \in DOMAIN task.calls :
              task.calls[i].fn = "extract_product_info" =>
                  \E j \in 1..(i - 1) :
                      /\ task.calls[j].fn \in HeuristicCalls
                      /\ task.calls[j].text = task.calls[i].text
                      /\ ~Truthy(task.calls[j].ret.name)
        /\ \A j \in DOMAIN task.calls :
              (/\ task.calls[j].fn = "extract_product_info_locally"
               /\ Truthy(task.calls[j].ret.name)) =>
                  /\ \A i \in DOMAIN task.calls :
                        task.calls[i].fn # "extract_product_info"
                  /\ data.product_info = task.calls[j].ret

(***************************************************************************)
(* utils/helpers.py: extract_json_from_text                                *)
(*                                                                         *)
(* A parsed JSON value is <<"obj", f>> (f: a function from the keys to the *)
(* values; a repeated key keeps its last value, as dict does),             *)
(* <<"str", s>> or <<"int", digits>>.  The texts are written with braces,  *)
(* double quotes, colons, commas, backticks, spaces, newlines, digits and  *)
(* the letters a, j, s, o, n: no literal (null, true, false, NaN), no      *)
(* array, escape, sign, fraction or exponent can be written with them.     *)
(***************************************************************************)
JsonError == <<"error">>

\* py_scanstring: from the opening quote at i to the closing quote; a
\* control character inside the string is an error (strict=True).
ScanString(s, i) ==
    LET Closed(q) ==
            IF q = {} THEN <<JsonError, 0>>
            ELSE IF \E j \in (i + 1)..(Min(q) - 1) : s[j] \in {"\n", "\t"}
                 THEN <<JsonError, 0>>
            ELSE << <<"str", Slice(s, i + 1, Min(q))>>, Min(q) + 1 >>
    IN  Closed({j \in (i + 1)..Len(s) : s[j] = "\""})

\* NUMBER_RE (-?(?:0|[1-9]\d*)) at a digit: a single 0, or a run of digits.
ScanNumber(s, i) ==
    LET Number(e) == << <<"int", Slice(s, i, e)>>, e >>
    IN  Number(IF s[i] = "0" THEN i + 1 ELSE RunEnd(s, i, Digit))

\* dict(pairs) after one more pair.
WithPair(f, key, val) ==
    [x \in DOMAIN f \cup {key} |-> IF x = key THEN val ELSE f[x]]

RECURSIVE ScanValue(_, _)
RECURSIVE ScanPairs(_, _, _)

\* JSONObject after the opening brace: i is the position of the quote that
\* opens the next key, f the pairs read so far.  <<value, end>>, or
\* <<JsonError, 0>>.
ScanPairs(s, i, f) ==
    LET \* after the value: '}' ends the object, ',' needs another key
        After(key, v, e) ==
            IF v[1] = JsonError \/ e > Len(s) THEN <<JsonError, 0>>
            ELSE IF s[e] = "}" THEN << <<"obj", WithPair(f, key, v[1])>>, e + 1 >>
            ELSE IF s[e] = "," /\ RunEnd(s, e + 1, WS) <= Len(s)
                    /\ s[RunEnd(s, e + 1, WS)] = "\""
                 THEN ScanPairs(s, RunEnd(s, e + 1, WS), WithPair(f, key, v[1]))
            ELSE <<JsonError, 0>>
        Value(key, v) == After(key, v, IF v[1] = JsonError THEN 0 ELSE RunEnd(s, v[2], WS))
        \* after the key: ':' and the value
        Colon(k, c) ==
            IF k[1] = JsonError \/ c > Len(s) \/ s[c] # ":" THEN <<JsonError, 0>>
            ELSE Value(k[1][2], ScanValue(s, RunEnd(s, c + 1, WS)))
        Key(k) == Colon(k, IF k[1] = JsonError THEN Len(s) + 1 ELSE RunEnd(s, k[2], WS))
    IN  Key(ScanString(s, i))

\* scan_once at position i: <<value, end>>, or <<JsonError, 0>>.
ScanValue(s, i) ==
    IF i > Len(s) THEN <<JsonError, 0>>
    ELSE IF s[i] = "\"" THEN ScanString(s, i)
    ELSE IF s[i] \in Digit THEN ScanNumber(s, i)
    ELSE IF s[i] = "{"
         THEN LET Open(k) ==
                      IF k > Len(s) THEN <<JsonError, 0>>
                      ELSE IF s[k] = "}" THEN << <<"obj", <<>> >>, k + 1 >>
                      ELSE IF s[k] = "\"" THEN ScanPairs(s, k, <<>>)
                      ELSE <<JsonError, 0>>
              IN  Open(RunEnd(s, i + 1, WS))
    ELSE <<JsonError, 0>>

\* json.loads(s): whitespace, one value, whitespace; JsonError stands for
\* JSONDecodeError.
json_loads(s) ==
    LET Whole(v) ==
            IF v[1] # JsonError /\ RunEnd(s, v[2], WS) = Len(s) + 1 THEN v[1]
            ELSE JsonError
    IN  Whole(ScanValue(s, RunEnd(s, 1, WS)))

\* Three backticks; a backtick is written "<tick>".
Fence == <<"<tick>", "<tick>", "<tick>">>
w_json == <<"@j", "@s", "@o", "@n">>

\* re.findall of the code block pattern (fence, optional json, \s*, lazy
\* group, fence) in text from position i on:
\* the groups of the matches, left to right, without overlap.
RECURSIVE CodeBlocks(_, _)
CodeBlocks(s, i) ==
    LET \* b: where the group starts; cl: the starts of the fences after it
        Closed(b, cl) ==
            IF cl = {} THEN <<>>
            ELSE <<Slice(s, b, Min(cl))>> \o CodeBlocks(s, Min(cl) + 3)
        Body(b) == Closed(b, {j \in b..Len(s) : LitAt(s, j, Fence)})
        \* o: the start of the leftmost opening fence with a closing one
        Opened(o) ==
            Body(RunEnd(s, IF LitAt(s, o + 3, w_json) THEN o + 7 ELSE o + 3, WS))
        From(os) == IF os = {} THEN <<>> ELSE Opened(Min(os))
    IN  From({j \in i..Len(s) : LitAt(s, j, Fence)})

\* The three attempts of extract_json_from_text, in order; None when all
\* fail.
extract_json_from_text(text) ==
    LET \* lines 44-53: from the first '{' to the last '}'
        Braces(op, cl) ==
            IF op # {} /\ cl # {} /\ Max(cl) + 1 > Min(op)
            THEN (LET Loaded(v) == IF v = JsonError THEN None ELSE v
                  IN  Loaded(json_loads(Slice(text, Min(op), Max(cl) + 1))))
            ELSE None
        \* lines 35-42: the first code block that parses
        Blocks(vs) ==
            IF \E k \in DOMAIN vs : vs[k] # JsonError
            THEN vs[Min({k \in DOMAIN vs : vs[k] # JsonError})]
            ELSE Braces({j \in 1..Len(text) : text[j] = "{"},
                        {j \in 1..Len(text) : text[j] = "}"})
        Parsed(ms) == Blocks([k \in DOMAIN ms |-> json_loads(Strip(ms[k]))])
        \* lines 29-32: the whole text
        Direct(v) == IF v # JsonError THEN v ELSE Parsed(CodeBlocks(text, 1))
    IN  Direct(json_loads(text))

(***************************************************************************)
(* extract_json_from_text as a pure function: SpecJson draws a JSON object *)
(* payload and applies the function to the payload alone, to the payload   *)
(* in a fenced code block and to the payload inside prose.                 *)
(***************************************************************************)
Quoted(s) == <<"\"">> \o s \o <<"\"">>

\* The values of the payloads' keys, as JSON text: "", "a", 1, a string
\* that holds a fenced 1, "{", and the object {"a": 1}.
JsonValueTexts ==
    { Quoted(<<>>), Quoted(<<"@a">>), <<"1">>, Quoted(Fence \o <<"1">> \o Fence),
      Quoted(<<"{">>), <<"{">> \o Quoted(<<"@a">>) \o <<":", " ", "1", "}">> }

\* The payloads: {}, {"a": v} and {"a": v, "n": w}.
JsonPayloads ==
    { <<"{", "}">> }
    \cup { <<"{">> \o Quoted(<<"@a">>) \o <<":", " ">> \o v \o <<"}">> :
             v \in JsonValueTexts }
    \cup { <<"{">> \o Quoted(<<"@a">>) \o <<":", " ">> \o v \o <<",", " ">>
                 \o Quoted(<<"@n">>) \o <<":", " ">> \o w \o <<"}">> :
             v \in JsonValueTexts, w \in JsonValueTexts }

\* The payload in a fenced code block, with the json tag and newlines or
\* without them.
FencedText(p, tagged) ==
    IF tagged THEN Fence \o w_json \o <<"\n">> \o p \o <<"\n">> \o Fence
    ELSE Fence \o p \o Fence

\* The prose around an embedded payload: <<before, after>>.
JsonProse ==
    { << <<"@a", " ", "@s", " ">>, <<>> >>,
      << <<"@a", ":", " ">>, <<" ", "@a">> >>,
      << <<"@a", " ", "{", "@a", "}", " ">>, <<>> >> }

EmbeddedText(p, prose) == prose[1] \o p \o prose[2]

JsonInit ==
    /\ px \in {[payload |-> p, tagged |-> t, prose |-> q, done |-> {},
                raw |-> None, fenced |-> None, embedded |-> None] :
                  p \in JsonPayloads, t \in BOOLEAN, q \in JsonProse}
    /\ fsm_state = "none" /\ data = <<>> /\ task = Idle /\ trace = Idle
    /\ keyboards = {} /\ req = Idle /\ bld = Idle

ExtractRaw ==
    /\ "raw" \notin px.done
    /\ px' = [px EXCEPT !.done = @ \cup {"raw"},
                        !.raw = extract_json_from_text(px.payload)]
    /\ UNCHANGED <<fsm_state, data, task, trace, keyboards, req, bld>>

ExtractFenced ==
    /\ "fenced" \notin px.done
    /\ px' = [px EXCEPT !.done = @ \cup {"fenced"},
                        !.fenced = extract_json_from_text(
                                       FencedText(px.payload, px.tagged))]
    /\ UNCHANGED <<fsm_state, data, task, trace, keyboards, req, bld>>

ExtractEmbedded ==
    /\ "embedded" \notin px.done
    /\ px' = [px EXCEPT !.done = @ \cup {"embedded"},
                        !.embedded = extract_json_from_text(
                                         EmbeddedText(px.payload, px.prose))]
    /\ UNCHANGED <<fsm_state, data, task, trace, keyboards, req, bld>>

JsonNext == ExtractRaw \/ ExtractFenced \/ ExtractEmbedded

SpecJson == JsonInit /\ [][JsonNext]_vars

\* C12: for every JSON object payload, extract_json_from_text returns the
\* same parsed object for the raw JSON string, for the JSON in a fenced
\* code block and for the JSON embedded in surrounding prose.
C12_SameObject ==
    px.done = {"raw", "fenced", "embedded"} =>
        /\ px.raw = json_loads(px.payload)
        /\ px.fenced = px.raw
        /\ px.embedded = px.raw

(***************************************************************************)
(* format_price as a pure function: SpecPrice draws a price, formats it    *)
(* and formats the result again.                                           *)
(***************************************************************************)
\* The pieces the prices are made of.
PriceChunks ==
    { <<"1">>, <<"5", "0">>, <<",">>, <<".">>, <<" ">>, <<RubSign>>, <<"$">>,
      <<"<eur>">>, <<"R", "u", "b">>, <<"@u", "@s", "@d">>, <<"@E", "@U", "@R">>,
      <<"@n", "/", "@a">> }

\* A price is None or the concatenation of at most MaxPriceChunks pieces.
MaxPriceChunks == 3

PriceInputs == TextsOf(PriceChunks, MaxPriceChunks) \cup {None}

PriceInit ==
    /\ px \in {[phase |-> "input", price |-> p, once |-> None, twice |-> None] :
                  p \in PriceInputs}
    /\ fsm_state = "none" /\ data = <<>> /\ task = Idle /\ trace = Idle
    /\ keyboards = {} /\ req = Idle /\ bld = Idle

\* format_price(price)
FormatOnce ==
    /\ px.phase = "input"
    /\ px' = [px EXCEPT !.phase = "once", !.once = format_price(px.price)]
    /\ UNCHANGED <<fsm_state, data, task, trace, keyboards, req, bld>>

\* format_price of what format_price returned
FormatAgain ==
    /\ px.phase = "once"
    /\ px' = [px EXCEPT !.phase = "twice", !.twice = format_price(px.once)]
    /\ UNCHANGED <<fsm_state, data, task, trace, keyboards, req, bld>>

PriceNext == FormatOnce \/ FormatAgain

SpecPrice == PriceInit /\ [][PriceNext]_vars

\* C13: format_price is idempotent: for every input price p,
\* format_price(format_price(p)) = format_price(p).
C13_Idempotent == px.phase = "twice" => px.twice = px.once

\* A price with a decimal comma and a currency word was rewritten by the
\* first call and left alone by the second.
C13_Witness ==
    /\ px.phase = "twice"
    /\ px.price # None /\ Contains(px.price, <<",">>) /\ Contains(px.price, <<"R", "u", "b">>)
    /\ px.once # px.price
    /\ Len(px.once) >= 4 /\ px.once[Len(px.once)] = RubSign
    /\ px.twice = px.once


(***************************************************************************)
(* Card templates: what render draws below the product image, and where.   *)
(* The three templates share the code of the text block and differ in its  *)
(* measures.                                                                *)
(***************************************************************************)
\* The position after the run of non-whitespace characters that starts at i.
WordEnd(s, i) == Min({j \in i..Len(s) : s[j] \in WS} \cup {Len(s) + 1})

\* str.split() from position i on: the maximal runs of non-whitespace.
RECURSIVE SplitFrom(_, _)
SplitFrom(s, i) ==
    IF i > Len(s) THEN <<>>
    ELSE IF s[i] \in WS THEN SplitFrom(s, i + 1)
    ELSE LET Cut(e) == <<Slice(s, i, e)>> \o SplitFrom(s, e)
         IN  Cut(WordEnd(s, i))

\* ' '.join(words)
RECURSIVE JoinSpace(_)
JoinSpace(words) ==
    IF words = <<>> THEN <<>>
    ELSE IF Len(words) = 1 THEN words[1]
    ELSE words[1] \o <<" ">> \o JoinSpace(Tail(words))

\* The loop of _wrap_text from the k-th word on and the flush after it: a
\* word that makes the current line longer than max_width closes the line
\* as it was before the word (empty when the word stood alone) and opens
\* the next one.
RECURSIVE WrapFrom(_, _, _, _, _)
WrapFrom(words, k, lines, current_line, max_width) ==
    IF k > Len(words)
    THEN IF current_line # <<>> THEN Append(lines, JoinSpace(current_line))
         ELSE lines
    ELSE IF Len(JoinSpace(Append(current_line, words[k]))) > max_width
    THEN WrapFrom(words, k + 1, Append(lines, JoinSpace(current_line)),
                  <<words[k]>>, max_width)
    ELSE WrapFrom(words, k + 1, lines, Append(current_line, words[k]),
                  max_width)

\* A variant that closes a line already when the word would fill it.
wrap_text_tight(text, max_width) ==
    WrapFrom(SplitFrom(text, 1), 1, <<>>, <<>>, max_width - 1)

\* _wrap_text(text, max_width), the same in the three templates
wrap_text(text, max_width) == WrapFrom(SplitFrom(text, 1), 1, <<>>, <<>>, max_width)

\* The measures of the text block of each template: the card height, the
\* offset of the category line or bar, the step to the first title line,
\* the wrap budgets and line steps of title and description, the step to
\* the size line and the height of the price banner.
Layouts ==
    [ minimal |->
        [height |-> 800, category_y |-> 350 + 40, title_gap |-> 35,
         title_width |-> 40, title_max |-> 2, title_step |-> 42,
         body_gap |-> 8, body_width |-> 55, body_step |-> 28,
         size_gap |-> 10, banner |-> 80],
      dark |->
        [height |-> 800, category_y |-> 350 + 40, title_gap |-> 35,
         title_width |-> 40, title_max |-> 2, title_step |-> 42,
         body_gap |-> 8, body_width |-> 55, body_step |-> 28,
         size_gap |-> 10, banner |-> 80],
      marketplace |->
        [height |-> 800, category_y |-> 350 + 10, title_gap |-> 55,
         title_width |-> 40, title_max |-> 2, title_step |-> 40,
         body_gap |-> 5, body_width |-> 60, body_step |-> 25,
         size_gap |-> 5, banner |-> 70] ]

NotDrawn == 0 - 1

\* The draw.text calls of the text block, given the wrapped title and the
\* wrapped description: each drawn line with its vertical offset, the
\* offset of the size line (NotDrawn without a size) and the top of the
\* price banner.
Drawn(L, title_lines, body_lines, size) ==
    LET n == IF Len(title_lines) < L.title_max THEN Len(title_lines)
             ELSE L.title_max
        title_y == L.category_y + L.title_gap
        body_y == title_y + n * L.title_step + L.body_gap
    IN  [budget |-> L.title_width,
         titles |-> [k \in 1..n |->
                        <<title_y + (k - 1) * L.title_step, title_lines[k]>>],
         body |-> [k \in 1..Len(body_lines) |->
                      <<body_y + (k - 1) * L.body_step, body_lines[k]>>],
         size_y |-> IF Truthy(size)
                    THEN body_y + Len(body_lines) * L.body_step + L.size_gap
                    ELSE NotDrawn,
         banner_top |-> L.height - L.banner]

\* render(product_name, price, description, category, color, size, ...) of
\* the template named template, reduced to its text block.
render(template, product_name, description, size) ==
    Drawn(Layouts[template],
          wrap_text(product_name, Layouts[template].title_width),
          IF Truthy(description)
          THEN wrap_text(description, Layouts[template].body_width)
          ELSE <<>>,
          size)

(***************************************************************************)
(* render as a pure function: SpecRender draws a template, a name, a       *)
(* description and a size, and renders the card.                           *)
(***************************************************************************)
\* n times the character c
Run(c, n) == [i \in 1..n |-> c]

\* The pieces the product names are made of.
NameChunks ==
    { Run("a", 20), Run("b", 19), Run("c", 41), Run("d", 3),
      <<" ">>, <<" ", " ">> }

\* A product name is the concatenation of at most MaxNameChunks pieces.
MaxNameChunks == 3

\* A description of n words of thirty letters, one space between them: no
\* two of them fit one line.
Paragraph(n) == JoinSpace([k \in 1..n |-> Run("x", 30)])

\* The longest description has MaxBodyWords words (495 characters).
MaxBodyWords == 16

Descriptions ==
    {Paragraph(n) : n \in {0, 1, MaxBodyWords \div 2, MaxBodyWords}}

Sizes == {None, <<"4", "2">>}

RenderInit ==
    /\ px \in {[phase |-> "input", template |-> t, name |-> n,
                description |-> d, size |-> s, card |-> None] :
                  t \in DOMAIN Layouts, n \in TextsOf(NameChunks, MaxNameChunks),
                  d \in Descriptions, s \in Sizes}
    /\ fsm_state = "none" /\ data = <<>> /\ task = Idle /\ trace = Idle
    /\ keyboards = {} /\ req = Idle /\ bld = Idle

\* One call of render on the template.
RenderCard ==
    /\ px.phase = "input"
    /\ px' = [px EXCEPT !.phase = "done",
                        !.card = render(px.template, px.name,
                                        px.description, px.size)]
    /\ UNCHANGED <<fsm_state, data, task, trace, keyboards, req, bld>>

RenderNext == RenderCard

SpecRender == RenderInit /\ [][RenderNext]_vars

\* C14: every template draws at most 2 title lines; a name longer than the
\* 40-character title budget is drawn as exactly 2 title lines, the first
\* two lines of the wrapped name, and the budget given to the wrap function
\* is 40.
C14_TwoTitleLines ==
    px.phase = "done" =>
        /\ px.card.budget = 40
        /\ Len(px.card.titles) <= 2
        /\ \A k \in 1..Len(px.card.titles) :
               px.card.titles[k][2] = wrap_text(px.name, 40)[k]
        /\ Len(px.name) > 40 => Len(px.card.titles) = 2

\* C15: no description line and no size line is drawn at or below the top
\* of the price banner.
C15_TextAboveBanner ==
    px.phase = "done" =>
        /\ \A k \in 1..Len(px.card.body) :
               px.card.body[k][1] < px.card.banner_top
        /\ px.card.size_y < px.card.banner_top


(***************************************************************************)
(* generator/templates/__init__.py: the template registry, and the         *)
(* CardBuilder methods that look a template up.                            *)
(*                                                                         *)
(* px.registry is the module-level dict TEMPLATES as the process holds it: *)
(* its items in insertion order.  px.builder is a CardBuilder object (its  *)
(* template_name and the class of its template), px.last the last call and *)
(* what it returned or raised.                                             *)
(***************************************************************************)
\* TEMPLATES as the module defines it.
TEMPLATES ==
    << <<"minimal", "MinimalTemplate">>, <<"dark", "DarkTemplate">>,
       <<"marketplace", "MarketplaceTemplate">> >>

\* get_template_name() of an instance of each template class.
get_template_name ==
    [MinimalTemplate |-> "minimal", DarkTemplate |-> "dark",
     MarketplaceTemplate |-> "marketplace", none |-> "none"]

\* list(d.keys())
Keys(d) == [k \in 1..Len(d) |-> d[k][1]]

\* d[key] for a key of the dict d
Item(d, key) == d[CHOOSE k \in 1..Len(d) : d[k][1] = key][2]

\* A variant that falls back to the first registered template.
get_template_with_default(registry, template_name) ==
    IF template_name \notin Range(Keys(registry))
    THEN [raised |-> FALSE, template |-> registry[1][2],
          not_found |-> "", available |-> <<>>]
    ELSE [raised |-> FALSE, template |-> Item(registry, template_name),
          not_found |-> "", available |-> <<>>]

\* get_template(template_name): an instance of the registered class, or
\* ValueError("Template '<name>' not found. Available: [<keys>]").
get_template(registry, template_name) ==
    IF template_name \notin Range(Keys(registry))
    THEN [raised |-> TRUE, template |-> "none",
          not_found |-> template_name, available |-> Keys(registry)]
    ELSE [raised |-> FALSE, template |-> Item(registry, template_name),
          not_found |-> "", available |-> <<>>]

\* list_templates(): for each registered name, the name its instance gives.
list_templates(registry) ==
    [k \in 1..Len(registry) |->
        <<registry[k][1], get_template_name[registry[k][2]]>>]

\* The names callers ask for: the registered ones and some others.
AskedNames == {"minimal", "dark", "marketplace", "Minimal", "classic", ""}

\* The calls of one run are at most MaxCalls.
MaxCalls == 3

NoBuilder == [template_name |-> "none", template |-> "none"]

RegistryInit ==
    /\ px = [registry |-> TEMPLATES, builder |-> NoBuilder, calls |-> 0,
             last |-> [fn |-> "none", name |-> "", listed |-> <<>>,
                       result |-> get_template(TEMPLATES, "minimal")]]
    /\ fsm_state = "none" /\ data = <<>> /\ task = Idle /\ trace = Idle
    /\ keyboards = {} /\ req = Idle /\ bld = Idle

\* The record of a call.
Called(fn, name, listed, result) ==
    [fn |-> fn, name |-> name, listed |-> listed, result |-> result]

\* get_template(name)
GetTemplate ==
    /\ px.calls < MaxCalls
    /\ \E name \in AskedNames :
          px' = [px EXCEPT !.calls = px.calls + 1,
                           !.last = Called("get_template", name, <<>>,
                                           get_template(px.registry, name))]
    /\ UNCHANGED <<fsm_state, data, task, trace, keyboards, req, bld>>

\* list_templates()
ListTemplates ==
    /\ px.calls < MaxCalls
    /\ px' = [px EXCEPT !.calls = px.calls + 1,
                        !.last = Called("list_templates", "",
                                        list_templates(px.registry),
                                        get_template(px.registry, "minimal"))]
    /\ UNCHANGED <<fsm_state, data, task, trace, keyboards, req, bld>>

\* The builder after self.template_name = name; self.template = r.template,
\* where the second assignment is not reached when get_template raised.
Assigned(builder, name, r) ==
    IF r.raised THEN [builder EXCEPT !.template_name = name]
    ELSE [template_name |-> name, template |-> r.template]

\* CardBuilder(name): when get_template raises no object comes to exist and
\* the builder held before stays.
NewCardBuilder ==
    /\ px.calls < MaxCalls
    /\ \E name \in AskedNames :
       \E r \in {get_template(px.registry, name)} :
          px' = [px EXCEPT !.calls = px.calls + 1,
                           !.builder = IF r.raised THEN px.builder
                                       ELSE Assigned(NoBuilder, name, r),
                           !.last = Called("CardBuilder", name, <<>>, r)]
    /\ UNCHANGED <<fsm_state, data, task, trace, keyboards, req, bld>>

\* builder.change_template(name)
ChangeTemplate ==
    /\ px.calls < MaxCalls
    /\ px.builder # NoBuilder
    /\ \E name \in AskedNames :
       \E r \in {get_template(px.registry, name)} :
          px' = [px EXCEPT !.calls = px.calls + 1,
                           !.builder = Assigned(px.builder, name, r),
                           !.last = Called("change_template", name, <<>>, r)]
    /\ UNCHANGED <<fsm_state, data, task, trace, keyboards, req, bld>>

RegistryNext == GetTemplate \/ ListTemplates \/ NewCardBuilder \/ ChangeTemplate

SpecRegistry == RegistryInit /\ [][RegistryNext]_vars

\* C16: get_template(name) returns for each registered name a template
\* whose get_template_name() is that name, and for every other name raises
\* a not-found error that names it and lists the registered names; no call
\* of get_template, list_templates or a CardBuilder method changes the
\* registry.
C16_RegistryLookup ==
    /\ px.registry = TEMPLATES
    /\ px.last.fn = "get_template" =>
          IF px.last.name \in {"minimal", "dark", "marketplace"}
          THEN /\ ~px.last.result.raised
               /\ get_template_name[px.last.result.template] = px.last.name
          ELSE /\ px.last.result.raised
               /\ px.last.result.not_found = px.last.name
               /\ px.last.result.available = <<"minimal", "dark", "marketplace">>

\* A builder exists and the last of three calls was a get_template for an
\* unregistered name, which raised.
C16_Witness ==
    /\ px.calls = 3
    /\ px.builder # NoBuilder
    /\ px.last.fn = "get_template" /\ px.last.name = "classic"
    /\ px.last.result.raised
    /\ px.registry = TEMPLATES


\* C17: when process_product_photo found a price in the caption
\* (extract_price_from_text returned one) and stored a record, the price of
\* the stored record is the caption's price, whatever price the vision
\* analysis returned.
C17_CaptionPriceWins ==
    (/\ task.phase = "ran" /\ task.handler = "process_product_photo"
     /\ Len(task.calls) >= 2
     /\ Truthy(task.calls[1].ret)) =>
        data.product_info.price = task.calls[1].ret

\* The vision analysis returned a price, the caption held another one, and
\* the stored record has the caption's.
C17_Witness ==
    /\ task.phase = "ran" /\ task.handler = "process_product_photo"
    /\ Len(task.calls) = 2
    /\ task.calls[1].fn = "extract_price_from_text" /\ Truthy(task.calls[1].ret)
    /\ task.calls[2].fn = "analyze_product_image" /\ Truthy(task.calls[2].ret.price)
    /\ task.calls[2].ret.price # task.calls[1].ret
    /\ data.product_info.price = task.calls[1].ret


\* C18: at both merge sites, when the photo's and the text's description
\* both have a value the merged description is the photo's, ". " and the
\* text's; every other field of the merged record is the text side's value
\* when it has one and the photo side's value otherwise.  (A field has a
\* value when it is neither null nor the empty string.)
C18_MergeRule ==
    trace.phase = "merge" =>
        /\ (Truthy(trace.photo.description) /\ Truthy(trace.text.description)) =>
               trace.merged.description =
                   JoinDescription(trace.photo.description, trace.text.description)
        /\ \A f \in SixFields \ {"description"} :
               trace.merged[f] = IF Truthy(trace.text[f]) THEN trace.text[f]
                                 ELSE trace.photo[f]


\* The items of the features mapping of a record: none when the record has
\* no mapping, a null one or an empty one.
FeatureItems(info) ==
    IF "other_features" \in DOMAIN info /\ Truthy(info.other_features)
    THEN Range(info.other_features) ELSE {}

\* The union of two sets of items in which over wins on a shared key.
ItemsUnion(base, over) ==
    over \cup {i \in base : \A o \in over : o[1] # i[1]}

\* C19: when two records are merged, the features mapping of the result is
\* the union of both sides' mappings, with the priority (text) side's value
\* on a key both sides have.
C19_FeaturesUnion ==
    trace.phase = "merge" =>
        FeatureItems(trace.merged) =
            ItemsUnion(FeatureItems(trace.photo), FeatureItems(trace.text))


\* C20: once a card has been rendered and sent, the record and the photo
\* reference stored for the conversation are discarded, so that no later
\* request renders a card from them.
C20_DiscardedAfterRender ==
    (trace.phase = "render" /\ trace.ok) =>
        /\ data.product_info = NoInfo
        /\ data.photo_url = Absent


(***************************************************************************)
(* Concurrent requests: select_template_handler of several chats on one    *)
(* event loop.  A handler runs until it awaits: the image generation, then *)
(* create_card_from_text (no await inside: CardBuilder, render and the     *)
(* write of the file are one step), then answer_photo, which reads the     *)
(* card file when the message is sent.                                     *)
(*                                                                         *)
(* In SpecCards bld.files is the cards directory (what each path holds)    *)
(* and bld.requests[r] the handler of chat r.                              *)
(***************************************************************************)
Chats == {"chat1", "chat2"}

\* data["original_text"] of a chat, and what the image generator returned
\* for it (None: no image).
CardTexts == {<<"K", "e", "d", "y">>, <<"S", "u", "m", "k", "a">>}
ImageUrls == {None, <<"@u", "@r", "@l", "1">>, <<"@u", "@r", "@l", "2">>}

\* hashlib.md5(text.encode()).hexdigest()[:8], one digest for each text.
text_hash(text) == IF text = <<"K", "e", "d", "y">> THEN "0a1b2c3d" ELSE "4e5f6a7b"

\* A variant of the file name that also carries the chat.
card_filename_per_chat(chat, template_name, text) ==
    <<"card", chat, template_name, text_hash(text)>>

\* Lines 128-136: f"card_{template_name}_{text_hash}".
card_filename(chat, template_name, text) ==
    <<"card", "", template_name, text_hash(text)>>

\* The bytes render returns: they depend on the template, on the record
\* (extracted from the text) and on the downloaded image.
CardBytes(template_name, text, image) == <<"png", template_name, text, image>>

NoFile == <<"absent", "", <<>>, <<>>>>

CardFiles ==
    {card_filename(c, t, x) : c \in Chats, t \in TemplateNames, x \in CardTexts}
        \cup {card_filename_per_chat(c, t, x) :
                 c \in Chats, t \in TemplateNames, x \in CardTexts}

Waiting ==
    [phase |-> "waiting", template |-> "", text |-> <<>>, image |-> None,
     path |-> NoFile, png |-> NoFile, sent |-> NoFile]

CardsInit ==
    /\ bld = [files |-> [p \in CardFiles |-> NoFile],
              requests |-> [r \in Chats |-> Waiting]]
    /\ fsm_state = "none" /\ data = <<>> /\ task = Idle /\ trace = Idle
    /\ keyboards = {} /\ px = Idle /\ req = Idle

\* Lines 322-351 of select_template_handler: the callback of chat r arrives
\* with its template, the stored text is read, the image is generated.
CardRequested(r) ==
    /\ bld.requests[r].phase = "waiting"
    /\ \E t \in TemplateNames, x \in CardTexts, i \in ImageUrls :
          bld' = [bld EXCEPT !.requests[r] =
                     [Waiting EXCEPT !.phase = "generated", !.template = t,
                                     !.text = x, !.image = i]]
    /\ UNCHANGED <<fsm_state, data, task, trace, keyboards, px, req>>

\* The request after create_card_from_text returned path p with bytes b.
Built(q, p, b) == [q EXCEPT !.phase = "built", !.path = p, !.png = b]

\* Lines 354-359: create_card_from_text renders and writes the card file.
CardBuilt(r) ==
    /\ bld.requests[r].phase = "generated"
    /\ \E p \in {card_filename(r, bld.requests[r].template, bld.requests[r].text)},
          b \in {CardBytes(bld.requests[r].template, bld.requests[r].text,
                           bld.requests[r].image)} :
          bld' = [bld EXCEPT !.files[p] = b,
                             !.requests[r] = Built(bld.requests[r], p, b)]
    /\ UNCHANGED <<fsm_state, data, task, trace, keyboards, px, req>>

\* Lines 362-366: answer_photo(FSInputFile(card_path)) uploads what the
\* file holds now.
CardSent(r) ==
    /\ bld.requests[r].phase = "built"
    /\ bld' = [bld EXCEPT !.requests[r].phase = "sent",
                          !.requests[r].sent = bld.files[bld.requests[r].path]]
    /\ UNCHANGED <<fsm_state, data, task, trace, keyboards, px, req>>

CardsNext == \E r \in Chats : CardRequested(r) \/ CardBuilt(r) \/ CardSent(r)

SpecCards == CardsInit /\ [][CardsNext]_vars

\* C21: two requests in flight never hold the same card path, and the card
\* a request sends is the one rendered for it: no other request's render
\* has overwritten the file in between.
C21_NoSharedCardFile ==
    /\ \A r, s \in Chats :
          (r # s /\ bld.requests[r].phase = "built"
                 /\ bld.requests[s].phase = "built") =>
              bld.requests[r].path # bld.requests[s].path
    /\ \A r \in Chats :
          bld.requests[r].phase = "sent" =>
              bld.requests[r].sent = bld.requests[r].png


(***************************************************************************)
(* The attempts of extract_json_from_text: SpecAttempts draws an answer of *)
(* the AI service made of code blocks, braces and prose, and extracts its  *)
(* JSON.                                                                   *)
(***************************************************************************)
\* The pieces of the answers: a code block that holds no JSON, one that
\* holds {}, one with the json tag that holds {"a": 1}, one that holds 1,
\* and loose braces, digits, letters and spaces.
AnswerChunks ==
    { Fence \o <<"{", "@a", "}">> \o Fence,
      Fence \o <<"{", "}">> \o Fence,
      Fence \o w_json \o <<"\n", "{">> \o Quoted(<<"@a">>) \o <<":", " ", "1", "}", "\n">> \o Fence,
      Fence \o <<"1">> \o Fence,
      <<"{", "}">>, <<"{">>, <<"}">>, <<"1">>, <<"@a">>, <<" ">> }

\* An answer is the concatenation of at most MaxAnswerChunks pieces.
MaxAnswerChunks == 3

\* The three attempts the function is described by: the whole text, the
\* first code block, the span from the first '{' to the last '}'; each is
\* the parsed value or JsonError.
FirstBlockAttempt(blocks) ==
    IF blocks = <<>> THEN JsonError ELSE json_loads(Strip(blocks[1]))

BraceAttempt(text, op, cl) ==
    IF op # {} /\ cl # {} /\ Max(cl) + 1 > Min(op)
    THEN json_loads(Slice(text, Min(op), Max(cl) + 1))
    ELSE JsonError

AttemptsInOrder(text) ==
    << json_loads(text),
       FirstBlockAttempt(CodeBlocks(text, 1)),
       BraceAttempt(text, {j \in 1..Len(text) : text[j] = "{"},
                          {j \in 1..Len(text) : text[j] = "}"}) >>

\* The first attempt that succeeded, None when none did.
FirstSuccess(attempts) ==
    IF \A k \in DOMAIN attempts : attempts[k] = JsonError THEN None
    ELSE attempts[Min({k \in DOMAIN attempts : attempts[k] # JsonError})]

\* _parse_ai_response and _parse_vision_response on an answer whose
\* extraction returned None ("if data:" is false): ProductInfo().
Unparsed == [parsed |-> "yes"]

AttemptsInit ==
    /\ px \in {[phase |-> "input", text |-> t, result |-> None,
                text_info |-> Unparsed, vision_info |-> Unparsed] :
                  t \in TextsOf(AnswerChunks, MaxAnswerChunks)}
    /\ fsm_state = "none" /\ data = <<>> /\ task = Idle /\ trace = Idle
    /\ keyboards = {} /\ req = Idle /\ bld = Idle

\* What the two parsers do with the extracted value.
Extracted(p, v) ==
    [p EXCEPT !.phase = "done", !.result = v,
              !.text_info = IF v = None THEN parse_ai_response(NoJson) ELSE Unparsed,
              !.vision_info = IF v = None THEN parse_vision_response(NoJson)
                              ELSE Unparsed]

\* data = extract_json_from_text(response) in the two parsers.
ExtractJson ==
    /\ px.phase = "input"
    /\ px' = Extracted(px, extract_json_from_text(px.text))
    /\ UNCHANGED <<fsm_state, data, task, trace, keyboards, req, bld>>

AttemptsNext == ExtractJson

SpecAttempts == AttemptsInit /\ [][AttemptsNext]_vars

\* C22: extract_json_from_text returns the result of the first successful
\* attempt among the parse of the whole response, the parse of the first
\* fenced code block and the parse of the span from the first '{' to the
\* last '}', in this order; when all fail the two parsers return the
\* all-null record.
C22_AttemptOrder ==
    px.phase = "done" =>
        /\ px.result = FirstSuccess(AttemptsInOrder(px.text))
        /\ px.result = None =>
              (px.text_info = EmptyInfo /\ px.vision_info = EmptyInfo)


(***************************************************************************)
(* ai/image_generator.py: ImageGenerator._generate_image_via_chat, and the *)
(* waits of the two retry loops.                                           *)
(*                                                                         *)
(* In SpecBackoff req.fn is the function whose loop runs and req.log the   *)
(* calls of asyncio.sleep: the attempt, its outcome and the seconds.       *)
(***************************************************************************)
\* The body of the for loop (lines 158-187) for one attempt with outcome o.
\* The function returns None where _make_request raises, and it sleeps
\* only after a 429 and after a timeout.
AfterImageAttempt(r, o) ==
    LET h == Append(r.hist, o)
        last == r.attempt = max_retries - 1
    IN  CASE o = "ok200" ->
                \* return self._extract_image_from_response(result)
                [r EXCEPT !.phase = "returned", !.hist = h,
                          !.result = <<"image", Len(h)>>]
          [] o = "s429" ->
                [r EXCEPT !.attempt = r.attempt + 1, !.hist = h,
                          !.waits = Append(r.waits, wait_time(r.attempt))]
          [] o = "timeout" ->
                [r EXCEPT !.attempt = r.attempt + 1, !.hist = h,
                          !.waits = IF last THEN r.waits
                                    ELSE Append(r.waits, retry_delay)]
          [] o \in {"bad200", "status", "connerr"} ->
                \* return None on the last attempt, else the next attempt
                IF last
                THEN [r EXCEPT !.phase = "returned", !.hist = h,
                               !.result = <<"none", Len(h)>>]
                ELSE [r EXCEPT !.attempt = r.attempt + 1, !.hist = h]

RetryLoops == {"_make_request", "_generate_image_via_chat"}

BackoffInit ==
    /\ req \in {[phase |-> "loop", attempt |-> 0, hist |-> <<>>, waits |-> <<>>,
                 result |-> <<>>, fn |-> f, log |-> <<>>] : f \in RetryLoops}
    /\ fsm_state = "none" /\ data = <<>> /\ task = Idle /\ trace = Idle
    /\ keyboards = {} /\ px = Idle /\ bld = Idle

\* The request after a pass of the loop, with the sleep of the pass (if it
\* slept) written to the log.
Logged(before, o, after) ==
    IF Len(after.waits) > Len(before.waits)
    THEN [after EXCEPT !.log = Append(before.log,
                                      [attempt |-> before.attempt, outcome |-> o,
                                       seconds |-> after.waits[Len(after.waits)]])]
    ELSE after

\* One pass of the loop of _make_request.
MakeRequestAttempt ==
    /\ req.fn = "_make_request"
    /\ req.phase = "loop"
    /\ req.attempt < max_retries
    /\ \E o \in Outcomes : req' = Logged(req, o, AfterAttempt(req, o))
    /\ UNCHANGED <<fsm_state, data, task, trace, keyboards, px, bld>>

\* One pass of the loop of _generate_image_via_chat.
ImageAttempt ==
    /\ req.fn = "_generate_image_via_chat"
    /\ req.phase = "loop"
    /\ req.attempt < max_retries
    /\ \E o \in Outcomes : req' = Logged(req, o, AfterImageAttempt(req, o))
    /\ UNCHANGED <<fsm_state, data, task, trace, keyboards, px, bld>>

\* The loop is over: _make_request raises, _generate_image_via_chat
\* returns None.
LoopExhausted ==
    /\ req.phase = "loop"
    /\ req.attempt >= max_retries
    /\ req' = IF req.fn = "_make_request" THEN [req EXCEPT !.phase = "raised"]
              ELSE [req EXCEPT !.phase = "returned",
                               !.result = <<"none", Len(req.hist)>>]
    /\ UNCHANGED <<fsm_state, data, task, trace, keyboards, px, bld>>

BackoffNext == MakeRequestAttempt \/ ImageAttempt \/ LoopExhausted

SpecBackoff == BackoffInit /\ [][BackoffNext]_vars

\* C23: in both retry loops every 429 response is followed by a wait, the
\* wait after a 429 on attempt k (from 0) is retry_delay * 2^k seconds, one
\* of 2, 4, 8, and the waits after successive 429 responses of one request
\* strictly increase.
C23_ExponentialBackoff ==
    /\ \A i \in DOMAIN req.hist :
          req.hist[i] = "s429" =>
              \E k \in DOMAIN req.log :
                  req.log[k].attempt = i - 1 /\ req.log[k].outcome = "s429"
    /\ \A k \in DOMAIN req.log :
          req.log[k].outcome = "s429" =>
              /\ req.log[k].seconds = retry_delay * Pow2(req.log[k].attempt)
              /\ req.log[k].seconds \in {2, 4, 8}
              /\ \A j \in 1..(k - 1) :
                     req.log[j].outcome = "s429" =>
                         req.log[j].seconds < req.log[k].seconds

\* The image request was rate-limited, timed out and was rate-limited
\* again: it waited 2, 2 and 8 seconds and returned no image.
C23_Witness ==
    /\ req.fn = "_generate_image_via_chat"
    /\ req.hist = <<"s429", "timeout", "s429">>
    /\ req.waits = <<2, 2, 8>>
    /\ Len(req.log) = 3 /\ req.log[3].attempt = 2 /\ req.log[3].seconds = 8
    /\ req.phase = "returned"


\* The span of the text from which extract_price_from_text took the price:
\* group 1 of the first pattern whose capture float() accepts, else the
\* first run of three or more digits; <<start, end>>.
AcceptedPatterns(text) ==
    {k \in 1..3 : /\ PricePatternGroup(text, k)[1] # 0
                  /\ FloatOK(NormalizeNumber(Slice(text, PricePatternGroup(text, k)[1],
                                                   PricePatternGroup(text, k)[2])))}

PriceSpan(text, acc) ==
    IF acc # {} THEN PricePatternGroup(text, Min(acc)) ELSE SearchDigitRun(text)

\* What the price step removes from the working text: the span of the
\* first match of the removal pattern.
RemovedSpan(text) == SearchPat(text, [k |-> "price_rm"])

\* The span rm starts where the span ps starts, covers it, and holds no
\* digit outside it.
RemovesOnly(text, rm, ps) ==
    /\ rm[1] = ps[1]
    /\ rm[2] >= ps[2]
    /\ \A i \in rm[1]..(rm[2] - 1) : text[i] \in Digit => i < ps[2]

\* C24: when extract_product_info_locally found a price, what the price
\* step removes from the working text is the span the price was taken from
\* (with the currency marker after it) and nothing else: the removed span
\* starts at the price and holds no other number of the input.
C24_PriceSpanRemoved ==
    (px.phase = "done" /\ Truthy(px.info.price)) =>
        RemovesOnly(PxText, RemovedSpan(PxText),
                    PriceSpan(PxText, AcceptedPatterns(PxText)))


(***************************************************************************)
(* _wrap_text as a pure function: SpecWrap draws a text and a width and    *)
(* wraps the text.                                                         *)
(***************************************************************************)
\* The pieces of the texts: words of 1, 2, 4 and 6 letters and whitespace.
WrapChunks ==
    { <<"a">>, <<"b", "b">>, <<"c", "c", "c", "c">>,
      <<"d", "d", "d", "d", "d", "d">>, <<" ">>, <<" ", " ">>, <<"\n">> }

\* A text is the concatenation of at most MaxWrapChunks pieces.
MaxWrapChunks == 5

Widths == {0, 3, 5, 8}

WrapInit ==
    /\ px \in {[phase |-> "input", text |-> t, max_width |-> w, lines |-> <<>>] :
                  t \in TextsOf(WrapChunks, MaxWrapChunks), w \in Widths}
    /\ fsm_state = "none" /\ data = <<>> /\ task = Idle /\ trace = Idle
    /\ keyboards = {} /\ req = Idle /\ bld = Idle

\* One call of _wrap_text(text, max_width).
WrapText ==
    /\ px.phase = "input"
    /\ px' = [px EXCEPT !.phase = "done",
                        !.lines = wrap_text(px.text, px.max_width)]
    /\ UNCHANGED <<fsm_state, data, task, trace, keyboards, req, bld>>

WrapNext == WrapText

SpecWrap == WrapInit /\ [][WrapNext]_vars

\* The words of the lines, read in order.
RECURSIVE WordsOfLines(_)
WordsOfLines(lines) ==
    IF lines = <<>> THEN <<>>
    ELSE SplitFrom(lines[1], 1) \o WordsOfLines(Tail(lines))

\* The length of the line after appending the word w to it.
LenWith(line, w) == IF line = <<>> THEN Len(w) ELSE Len(line) + 1 + Len(w)

\* C25: _wrap_text is the greedy wrap: the words of the returned lines,
\* read in order, are the whitespace-separated words of the text; a line
\* is at most max_width long unless it is a single word longer than
\* max_width; and a word starts a new line only when appending it to the
\* line before would exceed max_width.
C25_GreedyWrap ==
    px.phase = "done" =>
        /\ WordsOfLines(px.lines) = SplitFrom(px.text, 1)
        /\ \A k \in DOMAIN px.lines :
              \/ Len(px.lines[k]) <= px.max_width
              \/ /\ SplitFrom(px.lines[k], 1) = <<px.lines[k]>>
                 /\ Len(px.lines[k]) > px.max_width
        /\ \A k \in 2..Len(px.lines) :
              /\ px.lines[k] # <<>>
              /\ LenWith(px.lines[k - 1], SplitFrom(px.lines[k], 1)[1]) > px.max_width

\* A text wrapped into three lines or more, one of them two words that fill
\* the width exactly, one of them a single word longer than the width.
C25_Witness ==
    /\ px.phase = "done"
    /\ Len(px.lines) >= 3
    /\ \E k \in DOMAIN px.lines :
          Len(px.lines[k]) = px.max_width /\ Len(SplitFrom(px.lines[k], 1)) = 2
    /\ \E k \in DOMAIN px.lines : Len(px.lines[k]) > px.max_width


(***************************************************************************)
(* ImageGenerator._extract_image_from_response: the sources of an image in *)
(* an API response.  A dict of the response is a record with a type field, *)
(* a value that is no dict has another type.                               *)
(***************************************************************************)

w_data == <<"@d", "@a", "@t", "@a", ":">>
w_image == <<"@i", "@m", "@a", "@g", "@e">>
w_data_image == w_data \o w_image
w_base64 == <<";", "@b", "@a", "@s", "@e", "6", "4", ",">>
w_png == <<"/", "@p", "@n", "@g">>
w_http == <<"@h", "@t", "@t", "@p", ":", "/", "/", "@x">>

\* The characters of [A-Za-z0-9+/=].
Base64Ch == Range(LatLower) \cup Range(LatUpper) \cup Digit \cup {"+", "/", "="}

\* str.startswith
StartsWith(s, lit) == LitAt(s, 1, lit)

\* re.search(r'data:image/[^;]+;base64,[A-Za-z0-9+/=]+', s): the text of the
\* leftmost match, None without a match.  [^;]+ ends at the first ';' after
\* the slash, the payload is the longest run of base64 characters.
data_url_search(s) ==
    LET TypeEnd(i) == RunEnd(s, i + Len(w_data_image) + 1, Range(s) \ {";"})
        PayloadEnd(j) == RunEnd(s, j + Len(w_base64), Base64Ch)
        MatchAt(i) ==
            /\ LitAt(s, i, w_data_image \o <<"/">>)
            /\ TypeEnd(i) > i + Len(w_data_image) + 1
            /\ LitAt(s, TypeEnd(i), w_base64)
            /\ PayloadEnd(TypeEnd(i)) > TypeEnd(i) + Len(w_base64)
        Found(starts) ==
            IF starts = {} THEN None
            ELSE Slice(s, Min(starts), PayloadEnd(TypeEnd(Min(starts))))
    IN  Found({i \in 1..Len(s) : MatchAt(i)})

\* An AttributeError inside the try block.
AttributeError == <<"<AttributeError>">>

\* The loop over message["images"]: the url of the first dict whose url
\* starts with data:image; None when the loop ends without one; .get on an
\* image_url that is no dict raises.
images_loop(images) ==
    LET Stops(k) ==
            /\ images[k].type = "dict"
            /\ \/ images[k].image_url.type # "dict"
               \/ StartsWith(images[k].image_url.url, w_data_image)
        At(stops) ==
            IF stops = {} THEN None
            ELSE IF images[Min(stops)].image_url.type # "dict" THEN AttributeError
            ELSE images[Min(stops)].image_url.url
    IN  At({k \in DOMAIN images : Stops(k)})

\* What one part of a list-typed content returns (None: the loop goes on).
part_image(part) ==
    IF part.type # "dict" THEN None
    ELSE IF part.part_type = "image_url"
    THEN IF StartsWith(part.url, w_data_image) THEN part.url ELSE None
    ELSE IF part.has_inline_data
    THEN IF part.data # <<>>
         THEN w_data \o (IF part.mime_type = None THEN w_image \o w_png
                         ELSE part.mime_type) \o w_base64 \o part.data
         ELSE None
    ELSE None

\* The loop over a list-typed content.
parts_loop(parts) ==
    LET At(hits) == IF hits = {} THEN None ELSE part_image(parts[Min(hits)])
    IN  At({k \in DOMAIN parts : part_image(parts[k]) # None})

\* The branch of a string-typed content.
string_content(content) ==
    LET Scan(m) ==
            IF m # None THEN m
            ELSE IF StartsWith(content, w_data_image) THEN content
            ELSE None
    IN  Scan(IF Contains(content, w_data_image) THEN data_url_search(content)
             ELSE None)

content_image(content) ==
    IF content.type = "list" THEN parts_loop(content.parts)
    ELSE IF content.type = "str" THEN string_content(content.text)
    ELSE None

\* _extract_image_from_response(response)
extract_image_from_response(response) ==
    LET AfterImages(r) ==
            IF r = AttributeError THEN None
            ELSE IF r # None THEN r
            ELSE content_image(response.message.content)
    IN  IF ~response.has_choices THEN None
        ELSE AfterImages(images_loop(response.message.images))

\* The entries of an images field: a data URL, a web URL, a dict without
\* image_url, a dict whose image_url is null, a value that is no dict.
ImagesUrl == w_data_image \o w_png \o w_base64 \o <<"@I">>
ImageEntries ==
    { [type |-> "dict", image_url |-> [type |-> "dict", url |-> ImagesUrl]],
      [type |-> "dict", image_url |-> [type |-> "dict", url |-> w_http]],
      [type |-> "dict", image_url |-> [type |-> "dict", url |-> <<>>]],
      [type |-> "dict", image_url |-> [type |-> "null"]],
      [type |-> "str"] }

\* The parts of a list-typed content: an image_url part with a data URL, an
\* image_url part with a web URL that also carries inline_data, a part with
\* inline_data and no mime_type, a part with empty inline_data, a text part.
PartsUrl == w_data_image \o w_png \o w_base64 \o <<"@P">>
ContentParts ==
    { [type |-> "dict", part_type |-> "image_url", url |-> PartsUrl,
       has_inline_data |-> FALSE, mime_type |-> None, data |-> <<>>],
      [type |-> "dict", part_type |-> "image_url", url |-> w_http,
       has_inline_data |-> TRUE, mime_type |-> None, data |-> <<"@D">>],
      [type |-> "dict", part_type |-> "none", url |-> <<>>,
       has_inline_data |-> TRUE, mime_type |-> None, data |-> <<"@D">>],
      [type |-> "dict", part_type |-> "none", url |-> <<>>,
       has_inline_data |-> TRUE, mime_type |-> None, data |-> <<>>],
      [type |-> "dict", part_type |-> "text", url |-> <<>>,
       has_inline_data |-> FALSE, mime_type |-> None, data |-> <<>>] }

\* The pieces of a string-typed content.
ImageChunks ==
    { w_data_image \o w_png \o w_base64, w_data_image, <<"@A", "=">>,
      <<" ">>, <<";">> }

MaxImages == 2
MaxParts == 2
MaxImageChunks == 3

SeqsUpTo(S, n) == UNION { [1..k -> S] : k \in 0..n }

Contents ==
    { [type |-> "none"] }
    \cup { [type |-> "list", parts |-> p] : p \in SeqsUpTo(ContentParts, MaxParts) }
    \cup { [type |-> "str", text |-> t] : t \in TextsOf(ImageChunks, MaxImageChunks) }

Responses ==
    { [has_choices |-> TRUE, message |-> [images |-> i, content |-> c]] :
          i \in SeqsUpTo(ImageEntries, MaxImages), c \in Contents }
    \cup { [has_choices |-> FALSE] }

ImageInit ==
    /\ px \in { [phase |-> "input", response |-> r, result |-> None] : r \in Responses }
    /\ fsm_state = "none" /\ data = <<>> /\ task = Idle /\ trace = Idle
    /\ keyboards = {} /\ req = Idle /\ bld = Idle

\* One call of _extract_image_from_response(response).
ExtractImage ==
    /\ px.phase = "input"
    /\ px' = [px EXCEPT !.phase = "done",
                        !.result = extract_image_from_response(px.response)]
    /\ UNCHANGED <<fsm_state, data, task, trace, keyboards, req, bld>>

ImageNext == ExtractImage

SpecImage == ImageInit /\ [][ImageNext]_vars

\* The image the images field holds: the first url that starts with
\* data:image (None: the field holds none).
ImagesFieldImage(images) ==
    LET holds == {k \in DOMAIN images :
                      /\ images[k].type = "dict"
                      /\ images[k].image_url.type = "dict"
                      /\ StartsWith(images[k].image_url.url, w_data_image)}
    IN  IF holds = {} THEN None ELSE images[Min(holds)].image_url.url

\* The image of the first image_url or inline_data part of a list-typed
\* content that holds one.
PartsImage(content) ==
    IF content.type = "list" THEN parts_loop(content.parts) ELSE None

\* The data:image base64 token embedded in a string-typed content.
EmbeddedToken(content) ==
    IF content.type = "str" THEN data_url_search(content.text) ELSE None

FirstSource(m) ==
    IF ImagesFieldImage(m.images) # None THEN ImagesFieldImage(m.images)
    ELSE IF PartsImage(m.content) # None THEN PartsImage(m.content)
    ELSE EmbeddedToken(m.content)

\* C26: the result is the image of the first source that holds one, in the
\* order images field, parts of a list-typed content, token embedded in a
\* string-typed content; it is None when no source holds one (and when the
\* response has no choices); the call never raises.
C26_SourceOrder ==
    px.phase = "done" =>
        /\ px.result # AttributeError
        /\ px.result = IF px.response.has_choices
                       THEN FirstSource(px.response.message)
                       ELSE None


\* C27: a card is rendered and sent only by a template callback that
\* arrives while the conversation is in the selecting_template state and
\* the data holds a record: in every other state (before any input, after
\* /cancel, after a card was generated) the callback renders nothing.
C27_CardOnlyWhenSelecting ==
    [][(trace'.phase = "render" /\ trace'.ok) =>
           /\ fsm_state = "selecting_template"
           /\ data.product_info # NoInfo]_vars


(***************************************************************************)
(* /cancel while an extraction runs.  start_polling handles every update   *)
(* as a task of its own, so cancel_handler and a text or photo handler of  *)
(* the same conversation interleave at their awaits.  px is the position   *)
(* of the extraction handler, req the position of cancel_handler; the     *)
(* state filter of a handler is tested when its update is dispatched.      *)
(***************************************************************************)
NotRunning == [pc |-> "idle"]
Finished == [pc |-> "done"]

CancelInit ==
    /\ fsm_state \in {"processing_text", "processing_image"}
    /\ data = NoData
    /\ px = NotRunning /\ req = NotRunning
    /\ task = Idle /\ trace = Idle /\ keyboards = {} /\ bld = Idle

\* description.py 192-198: the state filter passes, original_text is stored,
\* the handler awaits the send of the loading message.
TextStarts ==
    /\ px = NotRunning /\ fsm_state = "processing_text"
    /\ \E user_text \in Messages :
          /\ px' = [pc |-> "loading", user_text |-> user_text]
          /\ data' = [data EXCEPT !.original_text = user_text]
    /\ UNCHANGED <<fsm_state, req, task, trace, keyboards, bld>>

\* description.py 200-204: the local extraction; with a name the record is
\* stored (218), without one the handler awaits the AI service.
TextExtractsLocally ==
    /\ px.pc = "loading"
    /\ \E local \in {LocallyOf[px.user_text]} :
          IF Truthy(local.name)
          THEN /\ px' = [pc |-> "confirming"]
               /\ data' = [data EXCEPT !.product_info = local]
          ELSE /\ px' = [pc |-> "ai", user_text |-> px.user_text]
               /\ UNCHANGED data
    /\ UNCHANGED <<fsm_state, req, task, trace, keyboards, bld>>

\* description.py 205-218: the AI service answered (or failed) and the
\* record is stored.
TextAiAnswers ==
    /\ px.pc = "ai"
    /\ \E a \in TextAnswers :
          \E info \in {AnalysisOf[px.user_text, a]} :
              data' = [data EXCEPT !.product_info = info]
    /\ px' = [pc |-> "confirming"]
    /\ UNCHANGED <<fsm_state, req, task, trace, keyboards, bld>>

\* description.py 221-252 (photo.py 235-270): the confirmation was sent.
ExtractionSetsState ==
    /\ px.pc = "confirming"
    /\ fsm_state' = "confirming_extracted_data"
    /\ px' = Finished
    /\ UNCHANGED <<data, req, task, trace, keyboards, bld>>

\* photo.py 185-189: the state filter passes, the handler awaits the send
\* of the loading message.
PhotoStarts ==
    /\ px = NotRunning /\ fsm_state = "processing_image"
    /\ \E caption \in Captions :
          px' = [pc |-> "get_file", caption |-> caption]
    /\ UNCHANGED <<fsm_state, data, req, task, trace, keyboards, bld>>

\* photo.py 191-198: bot.get_file returned and photo_url is stored, or it
\* raised.
PhotoGetsFile ==
    /\ px.pc = "get_file"
    /\ \E file_ok \in BOOLEAN :
          IF file_ok
          THEN /\ px' = [pc |-> "vision", caption |-> px.caption]
               /\ data' = [data EXCEPT !.photo_url = <<"@u", "@r", "@l">>]
          ELSE /\ px' = [pc |-> "failing"]
               /\ UNCHANGED data
    /\ UNCHANGED <<fsm_state, req, task, trace, keyboards, bld>>

\* photo.py 200-215: the image analysis answered; without a caption text to
\* analyse the record is stored (232).
PhotoVisionAnswers ==
    /\ px.pc = "vision"
    /\ \E va \in VisionAnswers :
          \E priced \in {caption_price_first(VisionOf[va], CaptionPriceOf[px.caption])} :
              IF Truthy(px.caption) /\ ~Truthy(CaptionPriceOf[px.caption])
              THEN /\ px' = [pc |-> "caption_ai", caption |-> px.caption,
                             product_info |-> priced]
                   /\ UNCHANGED data
              ELSE /\ px' = [pc |-> "confirming"]
                   /\ data' = [data EXCEPT !.product_info = priced]
    /\ UNCHANGED <<fsm_state, req, task, trace, keyboards, bld>>

\* photo.py 216-232: the analysis of the caption answered, the record is
\* merged and stored.
PhotoCaptionAnswers ==
    /\ px.pc = "caption_ai"
    /\ \E ta \in TextAnswers :
          \E product_info \in {caption_merge(px.product_info, AnalysisOf[px.caption, ta])} :
              data' = [data EXCEPT !.product_info = product_info]
    /\ px' = [pc |-> "confirming"]
    /\ UNCHANGED <<fsm_state, req, task, trace, keyboards, bld>>

\* photo.py 272-278: the except branch, after the error message was sent.
PhotoFails ==
    /\ px.pc = "failing"
    /\ fsm_state' = "waiting_for_input"
    /\ px' = Finished
    /\ UNCHANGED <<data, req, task, trace, keyboards, bld>>

\* menu.py 117-122: /cancel has no state filter; state.clear() resets the
\* state and the data, then the handler awaits the send of its answer.
CancelClears ==
    /\ req = NotRunning
    /\ fsm_state' = "none" /\ data' = NoData
    /\ req' = [pc |-> "answering"]
    /\ UNCHANGED <<px, task, trace, keyboards, bld>>

\* menu.py 124-125
CancelSetsState ==
    /\ req.pc = "answering"
    /\ fsm_state' = "waiting_for_input"
    /\ req' = Finished
    /\ UNCHANGED <<data, px, task, trace, keyboards, bld>>

CancelNext ==
    \/ TextStarts
    \/ TextExtractsLocally
    \/ TextAiAnswers
    \/ ExtractionSetsState
    \/ PhotoStarts
    \/ PhotoGetsFile
    \/ PhotoVisionAnswers
    \/ PhotoCaptionAnswers
    \/ PhotoFails
    \/ CancelClears
    \/ CancelSetsState

SpecCancel == CancelInit /\ [][CancelNext]_vars

\* C28: once cancel_handler has completed, the state is waiting_for_input
\* and the stored data is empty, and the extraction that was running when
\* /cancel arrived neither moves the state nor stores anything afterwards.
C28_CancelCancels ==
    req = Finished =>
        /\ fsm_state = "waiting_for_input"
        /\ data = NoData


\* C29: a change_template call that raises (unknown name) leaves the
\* builder as it was, and so at every moment template_name names the
\* template the builder renders with.
C29_ChangeTemplateKeeps ==
    [][(px'.last.fn = "change_template" /\ px'.last.result.raised) =>
           /\ px'.builder = px.builder
           /\ get_template_name[px'.builder.template] = px'.builder.template_name]_vars


\* C30: _wrap_text returns no empty line: every returned line holds at
\* least one word of the text.
C30_NoEmptyLine ==
    px.phase = "done" =>
        \A k \in DOMAIN px.lines : SplitFrom(px.lines[k], 1) # <<>>

====
